---- MODULE Spec2Model ----
(***************************************************************************)
(* ham2mon: the scan-cycle scheduler (apps/scanner.py), the demodulator    *)
(* slots it tunes (apps/demodulators/BaseTuner.py), the lockout manager    *)
(* (apps/lockout_manager.py), the center frequency provider                *)
(* (apps/frequency_provider.py), the frequency manager                     *)
(* (apps/frequency_manager.py) and the channel loggers                     *)
(* (apps/channel_loggers.py).                                              *)
(*                                                                         *)
(* Frequencies are integers in Hz.  The source keeps radio frequencies as  *)
(* floats in MHz; a radio frequency f MHz is represented by f * 1E6.       *)
(* Time is an integer number of seconds.                                   *)
(***************************************************************************)
EXTENDS Integers, Sequences, FiniteSets, TLC

VARIABLES
    record,             \* Scanner.record / BaseTuner.record (command line)
    max_recording,      \* Scanner.max_recording (command line)
    now,                \* time.time()
    center_freq,        \* Scanner.center_freq, LockoutManager.center_freq
    demod,              \* Receiver.demodulators: the slot table
    priority_channels,  \* Scanner.priority_channels
    lockouts,           \* LockoutManager.lockouts (radio frequencies)
    lockout_baseband,   \* LockoutManager.lockout_baseband
    chans,              \* scan_cycle's local `channels`
    idx,                \* position of the Assign loop in chans
    pc,                 \* where the main task is: idle, assign, crashed
    events,             \* ChannelMessages logged by the current cycle
    channels,           \* Scanner.channels: the published list
    params,             \* FrequencyProvider.params: singles, ranges, sample_rate
    steps,              \* FrequencyProvider.steps
    step,               \* FrequencyProvider.step
    provider_center_freq, \* FrequencyProvider.center_freq
    tasks,              \* the asyncio tasks running step_if_no_activity
    step_task,          \* FrequencyProvider.step_task
    callers,            \* the interesting_activity calls in progress
    frequencies,        \* FrequencyManager.frequencies
    manager_center,     \* FrequencyManager.center_freq
    config,             \* FrequencyManager.config
    answer,             \* what the last query of the frequencies returned
    auto_priority,      \* Scanner.auto_priority (command line)
    xmit_stats,         \* Scanner.xmit_stats: the counts of V, D and S of a frequency
    auto_priority_frequencies, \* Scanner.auto_priority_frequencies
    logger,             \* ChannelLogParams.type: the class of the channel logger
    log_timeout,        \* ChannelLogParams.timeout, in seconds
    log_task,           \* ChannelLogger.log_task: channel -> its log_active task, 0 without a key
    act_tasks,          \* the asyncio tasks running log_active
    last_state          \* state and frequency of the last on or off message logged for a channel

vars == <<record, max_recording, now, center_freq, demod, priority_channels,
          lockouts, lockout_baseband, chans, idx, pc, events, channels,
          params, steps, step, provider_center_freq, tasks, step_task, callers,
          frequencies, manager_center, config, answer,
          auto_priority, xmit_stats, auto_priority_frequencies, logger,
          log_timeout, log_task, act_tasks, last_state>>

scannerVars == <<record, max_recording, now, center_freq, demod, priority_channels,
                 lockouts, lockout_baseband, chans, idx, pc, events, channels>>

providerVars == <<params, steps, step, provider_center_freq, tasks, step_task, callers>>

managerVars == <<frequencies, manager_center, config, answer>>

loggerVars == <<logger, log_timeout, log_task, act_tasks, last_state>>

pipelineVars == <<auto_priority, xmit_stats, auto_priority_frequencies, loggerVars>>

----------------------------------------------------------------------------
(* Bounds and program constants *)

NumDemod == 2

MaxTime == 2

HangTime == 1

ChannelSpacing == 5000

SampRate == 4000000

\* How many step_if_no_activity tasks a run creates
MaxTasks == 5

\* The hardware center frequencies the user tunes to
Centers == {146000000}

\* The singles of a provider that steps through three frequencies
SweepSteps == <<146000000, 149000000, 152000000>>

\* The callers of interesting_activity
Callers == {1, 2}

\* What channel_estimate can report, as baseband Hz before rounding
RawChannels == {1200, 4900, 10100, 14900}

\* The priority file: radio frequencies in Hz, highest priority first
PriorityFile == <<146015000, 146005000>>

\* The command lines of the model: --record and --max_recording
Configs == {[record |-> FALSE, max_recording |-> 0],
            [record |-> TRUE,  max_recording |-> 1],
            [record |-> FALSE, max_recording |-> 1]}

\* How many lockouts the user adds
MaxLockouts == 1

\* time_stamp of a demodulator that has never been tuned while recording
NoStamp == -1

Slots == 1..NumDemod

----------------------------------------------------------------------------
(* Helpers *)

Range(s) == {s[i] : i \in DOMAIN s}

\* list.index(x), 1-based; 0 when x is not in the list (ValueError)
Index(s, x) ==
    IF x \in Range(s) THEN CHOOSE i \in DOMAIN s : s[i] = x /\ \A j \in 1..(i-1) : s[j] # x
    ELSE 0

Abs(x) == IF x < 0 THEN 0 - x ELSE x

\* Python's round() and numpy's round(): to the nearest integer, ties to even
RoundHalfEven(n, d) ==
    LET q == n \div d
        r == n % d
    IN  IF 2 * r < d THEN q
        ELSE IF 2 * r > d THEN q + 1
        ELSE IF q % 2 = 0 THEN q ELSE q + 1

\* The elements of the set of integers S as an increasing sequence
RECURSIVE Ascending(_)
Ascending(S) ==
    IF S = {} THEN <<>>
    ELSE LET m == CHOOSE x \in S : \A y \in S : x <= y
         IN  <<m>> \o Ascending(S \ {m})

RECURSIVE SelectNonZero(_)
SelectNonZero(s) ==
    IF s = <<>> THEN <<>>
    ELSE IF Head(s) # 0 THEN <<Head(s)>> \o SelectNonZero(Tail(s))
    ELSE SelectNonZero(Tail(s))

----------------------------------------------------------------------------
(* utilities.py *)

frequency_to_baseband(freq, center, spacing) ==
    RoundHalfEven(freq - center, spacing) * spacing

baseband_to_frequency(bb_freq, center) == bb_freq + center

----------------------------------------------------------------------------
(* lockout_manager.py *)

locked_out(channel) == \E i \in DOMAIN lockout_baseband : lockout_baseband[i] = channel

generate_baseband_lockout_channels(lks, center) ==
    [i \in DOMAIN lks |-> frequency_to_baseband(lks[i].freq, center, ChannelSpacing)]

\* LockoutManager.add that appends without looking for the frequency
LockoutAppend(lks, freq) == Append(lks, [freq |-> freq, saved |-> FALSE])

LockoutAdd(lks, freq) ==
    IF \E i \in DOMAIN lks : lks[i].freq = freq THEN lks
    ELSE Append(lks, [freq |-> freq, saved |-> FALSE])

----------------------------------------------------------------------------
(* receiver.py, demodulators/BaseTuner.py *)

get_demod_freqs(dm) == [s \in Slots |-> dm[s].center_freq]

DemodFreqSet(dm) == {dm[s].center_freq : s \in Slots}

Msg(state, bb, s) ==
    [state |-> state, frequency |-> baseband_to_frequency(bb, center_freq), channel |-> s]

\* The off message of set_center_freq, as a sequence of zero or one messages
OffEvents(d, s) ==
    IF record
    THEN IF d.file_name = "none" THEN <<>> ELSE <<Msg("off", d.center_freq, s)>>
    ELSE IF d.center_freq # 0 THEN <<Msg("off", d.center_freq, s)>> ELSE <<>>

\* BaseTuner.set_center_freq on slot s, whose state is d: the slot after it
TunedSlot(d, bb) ==
    IF bb = 0 \/ ~record
    THEN [d EXCEPT !.center_freq = bb, !.file_name = "none"]
    ELSE [d EXCEPT !.center_freq = bb, !.file_name = "tmp", !.time_stamp = now]

\* BaseTuner.set_center_freq: the messages it logs
TuneEvents(d, s, bb) ==
    OffEvents(d, s) \o (IF bb # 0 THEN <<Msg("on", bb, s)>> ELSE <<>>)

----------------------------------------------------------------------------
(* scanner.py *)

\* estimate.channel_estimate: one channel per run of bins above the threshold,
\* in bin order
EstimatorOutputs == {Ascending(S) : S \in SUBSET RawChannels}

\* _get_raw_channels: round to the channel spacing in RF, drop 0
RoundChannel(raw, center) ==
    RoundHalfEven(raw + center, ChannelSpacing) * ChannelSpacing - center

get_raw_channels(raws, center) ==
    SelectNonZero([i \in DOMAIN raws |-> RoundChannel(raws[i], center)])

\* is_higher_priority with the comparison of the two places turned around
is_higher_priority_reversed(channel, demod_freq) ==
    IF demod_freq = 0 THEN TRUE
    ELSE IF Index(priority_channels, channel) = 0 THEN FALSE
    ELSE IF Index(priority_channels, demod_freq) = 0 THEN TRUE
    ELSE Index(priority_channels, channel) > Index(priority_channels, demod_freq)

is_higher_priority(channel, demod_freq) ==
    IF demod_freq = 0 THEN TRUE
    ELSE IF Index(priority_channels, channel) = 0 THEN FALSE
    ELSE IF Index(priority_channels, demod_freq) = 0 THEN TRUE
    ELSE Index(priority_channels, channel) < Index(priority_channels, demod_freq)


----------------------------------------------------------------------------
(* FrequencyProvider._get_steps: the center frequencies of the singles and *)
(* ranges of a FrequencyGroup.  A group is a record of singles (a sequence *)
(* of frequencies), ranges (a sequence of records lower_freq, upper_freq)  *)
(* and sample_rate.  Python's int() of a quotient of positive integers is  *)
(* \div.                                                                   *)

FrequencyGroup(singles, ranges, sample_rate) ==
    [singles |-> singles, ranges |-> ranges, sample_rate |-> sample_rate]

\* move_distance rounded up instead of truncated
move_distance_up(span, number_of_moves) ==
    (span + number_of_moves - 2) \div (number_of_moves - 1)

\* distance = int((end_at - start_at) / (number_of_moves - 1))
move_distance(span, number_of_moves) == span \div (number_of_moves - 1)

\* one pass of the loop over the ranges: the centers one range adds
range_centers(a_range, sample_rate) ==
    IF a_range.upper_freq - a_range.lower_freq <= sample_rate
    THEN << a_range.lower_freq
              + (a_range.upper_freq - a_range.lower_freq) \div 2 >>
    ELSE LET start_at == a_range.lower_freq + sample_rate \div 2
             end_at == a_range.upper_freq - sample_rate \div 2
             number_of_moves == (end_at - start_at) \div sample_rate + 2
             distance == move_distance(end_at - start_at, number_of_moves)
         IN  [k \in 1..number_of_moves |-> start_at + (k - 1) * distance]

RECURSIVE ranges_centers(_, _)
ranges_centers(ranges, sample_rate) ==
    IF ranges = <<>> THEN <<>>
    ELSE range_centers(Head(ranges), sample_rate)
             \o ranges_centers(Tail(ranges), sample_rate)

get_steps(p) == p.singles \o ranges_centers(p.ranges, p.sample_rate)

----------------------------------------------------------------------------
(* frequency_manager.py.  A ConfigFrequency is a record of single, lo, hi  *)
(* (radio frequencies, in Hz), label, locked, priority, saved, is_single   *)
(* and the basebands bb_single, bb_lo, bb_hi; its mode takes no part in    *)
(* anything and is left out.  The dict that add and change take is a       *)
(* record of the same single, lo, hi, label, locked, priority and saved,   *)
(* with the defaults of the dataclass for what the dict does not have,     *)
(* of keys, the ones of label, priority and locked that it has, and of     *)
(* mode_add, whether its mode is 'add'.  The value of locked in a dict is  *)
(* any Python value, written as a string: "True", "False" or another.      *)

\* Python's None, for a frequency, a baseband or a priority: no baseband is
\* -1 (they are multiples of the channel spacing), the negative frequencies
\* of the model are others, and a priority is no -1
None == 0 - 1

\* Python's None for a label
NoLabel == "None"

\* the truth value of a float or None: None and 0.0 are false
Truthy(x) == x # None /\ x # 0

\* no validation at all
NothingRaised(entry) == "none"

\* the ValueError that ConfigFrequency(**entry) raises, "none" without one:
\* FrequencyInfo.__post_init__, then _validate_frequency_specification and
\* _validate_frequency_values (the frequencies of the model are floats)
ValueErrorOf(entry) ==
    IF entry.locked \notin {"True", "False"} THEN "Locked must be a boolean"
    ELSE IF entry.priority # None /\ entry.priority < 1
    THEN "Priority must be an integer >= 1"
    ELSE IF entry.single = None /\ entry.lo = None /\ entry.hi = None
    THEN "Frequency must be specified as single or range"
    ELSE IF entry.single # None /\ (entry.lo # None \/ entry.hi # None)
    THEN "Frequency cannot be specified as both single and range"
    ELSE IF (entry.lo # None) # (entry.hi # None)
    THEN "Both lo and hi must be specified for a frequency range"
    ELSE IF (entry.single # None /\ entry.single < 0) \/ (entry.lo # None /\ entry.lo < 0)
    THEN "Frequencies must be positive numbers"
    ELSE IF entry.lo # None /\ entry.hi # None /\ entry.lo >= entry.hi
    THEN "Upper frequency (hi) must be larger than lower frequency (lo)"
    ELSE "none"

\* ConfigFrequency(**entry), for an entry that raises nothing
ConfigFrequency(entry) ==
    [single |-> entry.single, lo |-> entry.lo, hi |-> entry.hi,
     label |-> entry.label, locked |-> entry.locked = "True",
     priority |-> entry.priority, saved |-> entry.saved,
     is_single |-> entry.single # None,
     bb_single |-> None, bb_lo |-> None, bb_hi |-> None]

calculate_baseband(f, center, channel_spacing) ==
    IF f.is_single
    THEN [f EXCEPT !.bb_single =
              frequency_to_baseband(f.single, center, channel_spacing)]
    ELSE [f EXCEPT !.bb_lo = frequency_to_baseband(f.lo, center, channel_spacing),
                   !.bb_hi = frequency_to_baseband(f.hi, center, channel_spacing)]

\* ConfigFrequency.__eq__; the None it returns when neither test applies
\* counts as false where add and change use it
ConfigFrequencyEq(a, b) ==
    IF Truthy(a.single) /\ Truthy(b.single) THEN a.single = b.single
    ELSE IF Truthy(a.lo) /\ Truthy(b.lo) THEN a.lo = b.lo /\ a.hi = b.hi
    ELSE FALSE

\* What a query gives: a value, or the TypeError of comparing None with an int
Returned(value) == [raised |-> FALSE, value |-> value]

TypeError == [raised |-> TRUE, value |-> None]

\* ConfigFrequency.locks_out
locks_out(f, bb) ==
    IF ~f.locked THEN Returned(FALSE)
    ELSE IF f.is_single /\ f.bb_single = bb THEN Returned(TRUE)
    ELSE IF ~f.is_single
    THEN IF f.bb_lo = None \/ f.bb_hi = None THEN TypeError
         ELSE Returned(f.bb_lo <= bb /\ bb <= f.bb_hi)
    ELSE Returned(FALSE)

\* ConfigFrequency.get_priority_at
get_priority_at(f, bb) ==
    IF f.priority = None THEN Returned(None)
    ELSE IF f.is_single /\ f.bb_single = bb THEN Returned(f.priority)
    ELSE IF ~f.is_single
    THEN IF f.bb_lo = None \/ f.bb_hi = None THEN TypeError
         ELSE Returned(IF f.bb_lo <= bb /\ bb <= f.bb_hi THEN f.priority ELSE None)
    ELSE Returned(None)

\* the loop of FrequencyManager.locked_out over the entries fs
RECURSIVE locked_out_loop(_, _)
locked_out_loop(fs, bb) ==
    IF fs = <<>> THEN Returned(FALSE)
    ELSE LET found == locks_out(Head(fs), bb)
         IN  IF found.raised \/ found.value THEN found
             ELSE locked_out_loop(Tail(fs), bb)

\* locked_out that disregards config.disable_lockout
locked_out_not_disabled(bb) == locked_out_loop(frequencies, bb)

\* FrequencyManager.locked_out
fm_locked_out(bb) ==
    IF config.disable_lockout THEN Returned(FALSE)
    ELSE locked_out_loop(frequencies, bb)

\* the loop of FrequencyManager.is_priority over the entries fs
RECURSIVE is_priority_loop(_, _, _)
is_priority_loop(fs, bb, lowest) ==
    IF fs = <<>> THEN Returned(lowest)
    ELSE LET priority == get_priority_at(Head(fs), bb)
         IN  IF priority.raised THEN priority
             ELSE IF priority.value # None
             THEN IF Truthy(Head(fs).single) THEN priority
                  ELSE is_priority_loop(Tail(fs), bb,
                           IF lowest = None \/ priority.value < lowest
                           THEN priority.value ELSE lowest)
             ELSE is_priority_loop(Tail(fs), bb, lowest)

\* FrequencyManager.is_priority
fm_is_priority(bb) == is_priority_loop(frequencies, bb, None)

\* is_higher_priority that lets an equal priority through
is_higher_or_equal_priority(channel_bb, demod_freq) ==
    IF demod_freq = 0 THEN Returned(TRUE)
    ELSE IF config.disable_priority THEN Returned(FALSE)
    ELSE LET channel_priority == fm_is_priority(channel_bb)
             demod_priority == fm_is_priority(demod_freq)
         IN  IF channel_priority.raised THEN TypeError
             ELSE IF channel_priority.value = None THEN Returned(FALSE)
             ELSE IF demod_priority.raised THEN TypeError
             ELSE IF demod_priority.value = None THEN Returned(TRUE)
             ELSE Returned(channel_priority.value <= demod_priority.value)

\* FrequencyManager.is_higher_priority
fm_is_higher_priority(channel_bb, demod_freq) ==
    IF demod_freq = 0 THEN Returned(TRUE)
    ELSE IF config.disable_priority THEN Returned(FALSE)
    ELSE LET channel_priority == fm_is_priority(channel_bb)
             demod_priority == fm_is_priority(demod_freq)
         IN  IF channel_priority.raised THEN TypeError
             ELSE IF channel_priority.value = None THEN Returned(FALSE)
             ELSE IF demod_priority.raised THEN TypeError
             ELSE IF demod_priority.value = None THEN Returned(TRUE)
             ELSE Returned(channel_priority.value < demod_priority.value)

\* The last call was not a query, and it raised nothing
NoAnswer == [asked |-> FALSE, error |-> "none"]

\* The last call raised an exception with this message
Failed(error) == [asked |-> FALSE, error |-> error]

\* Python's None for config.file_name
NoFile == "None"

\* FrequencyManager.__init__ with both toggles off
NoManager ==
    /\ frequencies = <<>>
    /\ manager_center = None
    /\ config = [file_name |-> NoFile, disable_lockout |-> FALSE, disable_priority |-> FALSE]
    /\ answer = NoAnswer

\* ChannelLogger.get_logger without a channel log: a NoOp, whose timeout is 0
\* and whose log_task is empty
\* ChannelLogger.__init__: log_task = {}, and no message was logged yet
NoActTasks ==
    /\ log_task = [s \in 1..NumDemod |-> 0]
    /\ act_tasks = <<>>
    /\ last_state = [s \in 1..NumDemod |-> [state |-> "none", frequency |-> 0]]

NoLogger ==
    /\ logger = "none"
    /\ log_timeout = 0
    /\ NoActTasks

\* Scanner.__init__ without --auto_priority and without a channel log: no
\* counts yet, and ChannelLogger.get_logger gives a NoOp
NoPipeline ==
    /\ auto_priority = FALSE
    /\ xmit_stats = [rf \in {} |-> 0]
    /\ auto_priority_frequencies = <<>>
    /\ NoLogger
\* The tests of one iteration of the loop of _process_current_demodulators
\* Heard with a membership test that never succeeds
HeardNever(d, chs) == FALSE

Heard(d, chs) == d.center_freq \in Range(chs)

HangExpired(d) == now - d.last_heard > HangTime

MaxRecordingReached(d) == now - d.time_stamp >= max_recording

\* demodulator.set_center_freq(0, ...) on slot s, inside the loop state st
Released(st, s) ==
    [st EXCEPT !.dm[s] = TunedSlot(st.dm[s], 0),
               !.ev = st.ev \o TuneEvents(st.dm[s], s, 0)]

\* One iteration of the loop of _process_current_demodulators on slot s.
\* st is [dm, ev, crashed]; once an exception is raised nothing more is done.
ReleaseSlot(st, s, chs) ==
    LET d == st.dm[s] IN
    IF st.crashed \/ d.center_freq = 0 THEN st
    ELSE IF locked_out(d.center_freq) THEN Released(st, s)
    ELSE
      LET st1 == IF ~Heard(d, chs)
                 THEN IF HangExpired(d) THEN Released(st, s) ELSE st
                 ELSE [st EXCEPT !.dm[s].last_heard = now]
      IN  IF max_recording > 0
          THEN IF st1.dm[s].time_stamp = NoStamp
               THEN [st1 EXCEPT !.crashed = TRUE]   \* AttributeError
               ELSE IF MaxRecordingReached(st1.dm[s]) THEN Released(st1, s)
               ELSE st1
          ELSE st1

RECURSIVE ReleaseFrom(_, _, _)
ReleaseFrom(st, s, chs) ==
    IF s > NumDemod THEN st
    ELSE ReleaseFrom(ReleaseSlot(st, s, chs), s + 1, chs)

process_current_demodulators(dm, chs) ==
    ReleaseFrom([dm |-> dm, ev |-> <<>>, crashed |-> FALSE], 1, chs)

\* Assignable without the test of the lockouts
AssignableIgnoringLockouts(dm, channel) == channel \notin DemodFreqSet(dm)

\* Assignable without the test of the demodulators' frequencies
AssignableAlreadyTuned(dm, channel) == ~locked_out(channel)

\* Whether the outer loop of _assign_channels_to_demodulators looks for a slot
Assignable(dm, channel) ==
    channel \notin DemodFreqSet(dm) /\ ~locked_out(channel)

\* FirstSlot with the inner loop going on to the last slot it can take
LastSlot(dm, channel) ==
    IF \E s \in Slots : is_higher_priority(channel, dm[s].center_freq)
    THEN CHOOSE s \in Slots :
            /\ is_higher_priority(channel, dm[s].center_freq)
            /\ \A t \in (s+1)..NumDemod : ~is_higher_priority(channel, dm[t].center_freq)
    ELSE 0

\* The slot the inner loop of _assign_channels_to_demodulators breaks at; 0 if none
FirstSlot(dm, channel) ==
    IF \E s \in Slots : is_higher_priority(channel, dm[s].center_freq)
    THEN CHOOSE s \in Slots :
            /\ is_higher_priority(channel, dm[s].center_freq)
            /\ \A t \in 1..(s-1) : ~is_higher_priority(channel, dm[t].center_freq)
    ELSE 0

\* One iteration of the outer loop of _assign_channels_to_demodulators.
\* st is [dm, ev].
AssignChannel(st, channel) ==
    LET s == FirstSlot(st.dm, channel) IN
    IF Assignable(st.dm, channel) /\ s # 0
    THEN [dm |-> [st.dm EXCEPT ![s] = TunedSlot(st.dm[s], channel)],
          ev |-> st.ev \o TuneEvents(st.dm[s], s, channel)]
    ELSE st

RECURSIVE AssignFrom(_, _, _)
AssignFrom(st, chs, i) ==
    IF i > Len(chs) THEN st
    ELSE AssignFrom(AssignChannel(st, chs[i]), chs, i + 1)

assign_channels_to_demodulators(st, chs) == AssignFrom(st, chs, 1)

\* _add_metadata
RECURSIVE AppendMissing(_, _, _)
AppendMissing(all, freqs, s) ==
    IF s > NumDemod THEN all
    ELSE IF freqs[s] # 0 /\ freqs[s] \notin Range(all)
         THEN AppendMissing(Append(all, freqs[s]), freqs, s + 1)
         ELSE AppendMissing(all, freqs, s + 1)

\* a Channel whose flags say that no slot holds it
ChannelUnheld(channel, dm, active) ==
    [baseband  |-> channel,
     frequency |-> baseband_to_frequency(channel, center_freq),
     locked    |-> locked_out(channel),
     active    |-> FALSE,
     priority  |-> channel \in Range(priority_channels),
     hanging   |-> FALSE]

ChannelOf(channel, dm, active) ==
    [baseband  |-> channel,
     frequency |-> baseband_to_frequency(channel, center_freq),
     locked    |-> locked_out(channel),
     active    |-> channel \in DemodFreqSet(dm) /\ channel \in Range(active),
     priority  |-> channel \in Range(priority_channels),
     hanging   |-> channel \in DemodFreqSet(dm) /\ channel \notin Range(active)]

RECURSIVE Sweep(_, _, _, _)
Sweep(sweep, all, dm, active) ==
    IF all = <<>> THEN sweep
    ELSE LET c == ChannelOf(Head(all), dm, active)
         IN  Sweep(IF c.priority THEN <<c>> \o sweep ELSE Append(sweep, c),
                   Tail(all), dm, active)

add_metadata(dm, active) ==
    Sweep(<<>>, AppendMissing(active, get_demod_freqs(dm), 1), dm, active)

\* scan_cycle from the slot table dm on the estimator output raws, as a whole:
\* the slot table, the messages logged and the list published
scan_cycle(dm, raws) ==
    LET chs == get_raw_channels(raws, center_freq)
        rel == process_current_demodulators(dm, chs)
        asg == assign_channels_to_demodulators([dm |-> rel.dm, ev |-> rel.ev], chs)
    IN  IF rel.crashed
        THEN [dm |-> rel.dm, ev |-> rel.ev, crashed |-> TRUE, channels |-> channels]
        ELSE [dm |-> asg.dm, ev |-> asg.ev, crashed |-> FALSE,
              channels |-> add_metadata(asg.dm, chs)]

\* update_priority
RECURSIVE PriorityFrom(_, _)
PriorityFrom(lines, center) ==
    IF lines = <<>> THEN <<>>
    ELSE LET bb == frequency_to_baseband(Head(lines), center, ChannelSpacing)
         IN  (IF 2 * Abs(bb) <= SampRate THEN <<bb>> ELSE <<>>)
             \o PriorityFrom(Tail(lines), center)

\* update_priority and add_auto_priority_frequencies: the channels of the
\* priority file, then those of the frequencies with more voice
update_priority(autos, center) ==
    PriorityFrom(PriorityFile, center) \o PriorityFrom(autos, center)

----------------------------------------------------------------------------
(* The scanner: the state after Scanner.__init__, and the main loop of     *)
(* ham2mon.py (MyDisplay.run): a key of the interface, then a scan cycle.  *)

IdleSlot == [center_freq |-> 0, last_heard |-> 0, time_stamp |-> NoStamp, file_name |-> "none"]

IdleCaller == [pc |-> "idle", task |-> 0]

InitScanner(c) ==
    /\ \E cfg \in Configs : record = cfg.record /\ max_recording = cfg.max_recording
    /\ now = 0
    /\ center_freq = c
    /\ demod = [s \in Slots |-> IdleSlot]
    /\ priority_channels = <<>>
    /\ lockouts = <<>>
    /\ lockout_baseband = <<>>
    /\ chans = <<>>
    /\ idx = 0
    /\ pc = "idle"
    /\ events = <<>>
    /\ channels = <<>>

\* FrequencyProvider.__init__ with one step: not stepping, no task
PlainScanner ==
    /\ \E c \in Centers :
          /\ InitScanner(c)
          /\ params = FrequencyGroup(<<c>>, <<>>, SampRate)
          /\ steps = get_steps(params)
          /\ provider_center_freq = steps[1]
    /\ step = 0
    /\ tasks = <<>>
    /\ step_task = 0
    /\ callers = [c \in Callers |-> IdleCaller]

\* the same without --auto_priority and without a channel log
Init ==
    /\ PlainScanner
    /\ NoManager
    /\ NoPipeline

\* time passes between two cycles
Tick ==
    /\ pc = "idle"
    /\ now < MaxTime
    /\ now' = now + 1
    /\ UNCHANGED <<record, max_recording, center_freq, demod, priority_channels,
                   lockouts, lockout_baseband, chans, idx, pc, events, channels>>
    /\ UNCHANGED <<providerVars, managerVars, pipelineVars>>

\* the channels of the interface's channel window, which add_lockout indexes
ActiveOrHanging == SelectSeq(channels, LAMBDA c : c.active \/ c.hanging)

\* the lockouts that the user added
Unsaved(lks) == SelectSeq(lks, LAMBDA l : ~l.saved)

\* the lockouts after Scanner.add_lockout(i - 1): subset[idx] raises IndexError
\* when idx is past the end, and the method returns
add_lockout(i) ==
    IF i \in DOMAIN ActiveOrHanging
    THEN LockoutAdd(lockouts, ActiveOrHanging[i].frequency)
    ELSE lockouts

\* Scanner.add_lockout(i - 1), from a digit key of the interface
AddLockout(i) ==
    /\ pc = "idle"
    /\ Len(Unsaved(add_lockout(i))) <= MaxLockouts
    /\ lockouts' = add_lockout(i)
    /\ lockout_baseband' =
          IF i \in DOMAIN ActiveOrHanging
          THEN generate_baseband_lockout_channels(lockouts', center_freq)
          ELSE lockout_baseband
    /\ UNCHANGED <<record, max_recording, now, center_freq, demod, priority_channels,
                   chans, idx, pc, events, channels>>
    /\ UNCHANGED <<providerVars, managerVars, pipelineVars>>

\* Scanner.set_center_freq(c): the receiver is tuned, the priority file is read
\* again and the baseband lockouts are generated again
ScannerSetCenterFreq(c) ==
    /\ center_freq' = c
    /\ priority_channels' = update_priority(auto_priority_frequencies, c)
    /\ lockout_baseband' = generate_baseband_lockout_channels(lockouts, c)
    /\ UNCHANGED <<record, max_recording, now, demod, lockouts, chans, idx, pc,
                   events, channels>>

\* a frequency key of the interface
SetCenterFreq(c) ==
    /\ pc = "idle"
    /\ ScannerSetCenterFreq(c)
    /\ UNCHANGED <<providerVars, managerVars, pipelineVars>>

\* scan_cycle: _get_raw_channels and _process_current_demodulators
Release(raws) ==
    /\ pc = "idle"
    /\ LET chs == get_raw_channels(raws, center_freq)
           st == process_current_demodulators(demod, chs)
       IN  /\ chans' = chs
           /\ demod' = st.dm
           /\ events' = st.ev
           /\ pc' = IF st.crashed THEN "crashed" ELSE "assign"
           /\ idx' = 1
    /\ UNCHANGED <<record, max_recording, now, center_freq, priority_channels,
                   lockouts, lockout_baseband, channels>>
    /\ UNCHANGED <<providerVars, managerVars, pipelineVars>>

\* scan_cycle: one iteration of the loop of _assign_channels_to_demodulators
Assign ==
    /\ pc = "assign"
    /\ idx <= Len(chans)
    /\ LET st == AssignChannel([dm |-> demod, ev |-> events], chans[idx])
       IN  /\ demod' = st.dm
           /\ events' = st.ev
    /\ idx' = idx + 1
    /\ UNCHANGED <<record, max_recording, now, center_freq, priority_channels,
                   lockouts, lockout_baseband, chans, pc, channels>>
    /\ UNCHANGED <<providerVars, managerVars, pipelineVars>>

\* scan_cycle: _add_metadata, and the return to the main loop
Publish ==
    /\ pc = "assign"
    /\ idx > Len(chans)
    /\ channels' = add_metadata(demod, chans)
    /\ pc' = "idle"
    /\ idx' = 0
    /\ chans' = <<>>
    /\ events' = <<>>
    /\ UNCHANGED <<record, max_recording, now, center_freq, demod, priority_channels,
                   lockouts, lockout_baseband>>
    /\ UNCHANGED <<providerVars, managerVars, pipelineVars>>

Next ==
    \/ Tick
    \/ \E i \in 1..(NumDemod + Cardinality(RawChannels)) : AddLockout(i)
    \/ \E c \in Centers : SetCenterFreq(c)
    \/ \E raws \in EstimatorOutputs : Release(raws)
    \/ Assign
    \/ Publish

Spec == Init /\ [][Next]_vars

----------------------------------------------------------------------------
(* The frequency provider with more than one step.  A task is one run of   *)
(* step_if_no_activity: "sleeping" in asyncio.sleep, "cancelling" once     *)
(* cancel() was called on it, then "cancelled"; "done" after an advance,   *)
(* "failed" when notify_scanner raised in it.                              *)
(* A caller is one run of interesting_activity.                            *)

\* params.quiet_timeout and params.active_timeout, in seconds
QuietTimeout == 10

ActiveTimeout == 16

TimeoutOf(timeout) == IF timeout = "active" THEN ActiveTimeout ELSE QuietTimeout

\* when the asyncio.sleep of a task ends
Due(task) == task.armed_at + TimeoutOf(task.timeout)

\* Task.cancel() that has no effect
CancelIgnored(task) == task

\* Task.cancel() on a task that has not finished: CancelledError is thrown
\* into it at its sleep, whether or not the timer has fired
Cancel(task) == [task EXCEPT !.state = "cancelling"]

\* the asyncio task that runs scan_cycle is not running: it is between two
\* cycles or suspended in interesting_activity
MainSuspended == pc = "idle" \/ \E c \in Callers : callers[c].pc = "awaiting"

\* a task that has just been created: it sleeps from now on
Sleeping(timeout) == [state |-> "sleeping", timeout |-> timeout, armed_at |-> now]

\* asyncio.create_task(self.step_if_no_activity(timeout))
CreateTask(ts, timeout) == Append(ts, Sleeping(timeout))

\* Rearm that creates no task
NotRearmed(ts) == ts

\* the last two lines of step_if_no_activity
Rearm(ts) == CreateTask(ts, "quiet")

\* RearmActive with the quiet timeout
RearmActiveAsQuiet(ts) == CreateTask(ts, "quiet")

\* the last two lines of interesting_activity
RearmActive(ts) == CreateTask(ts, "active")

\* not_stepping that is false for every provider
always_stepping == FALSE

not_stepping == Len(steps) = 1

\* NextStep that stays on the last step
NextStepNoWrap == IF step = Len(steps) - 1 THEN step ELSE step + 1

\* the step after the current one, looping around at the end of the steps
NextStep == IF step = Len(steps) - 1 THEN 0 ELSE step + 1

Armed == {t \in DOMAIN tasks : tasks[t].state = "sleeping"}

Unfinished == {t \in DOMAIN tasks : tasks[t].state \in {"sleeping", "cancelling"}}

Suspended == {c \in Callers : callers[c].pc = "awaiting"}

\* room for the tasks that the calls in progress and one more operation create
Room == Len(tasks) + Cardinality(Suspended) < MaxTasks

\* FrequencyProvider.__init__ with several steps, inside Scanner.__init__
SteppingScanner ==
    /\ params = FrequencyGroup(SweepSteps, <<>>, SampRate)
    /\ steps = get_steps(params)
    /\ step = 0
    /\ provider_center_freq = steps[1]
    /\ InitScanner(steps[1])
    /\ tasks = CreateTask(<<>>, "quiet")
    /\ step_task = 1
    /\ callers = [c \in Callers |-> IdleCaller]

\* the same without --auto_priority and without a channel log
InitStepping ==
    /\ SteppingScanner
    /\ NoManager
    /\ NoPipeline

\* step_if_no_activity after its sleep: the advance, notify_scanner
\* (Scanner.center_freq_changed) and the next task
Advance(t) ==
    /\ t \in Armed
    /\ MainSuspended
    /\ Room
    /\ step' = NextStep
    /\ provider_center_freq' = steps[step' + 1]
    /\ ScannerSetCenterFreq(provider_center_freq')
    /\ tasks' = Rearm([tasks EXCEPT ![t].state = "done"])
    /\ step_task' = Len(tasks')
    /\ UNCHANGED <<pipelineVars, managerVars, params, steps, callers>>

\* the CancelledError raised in step_if_no_activity at its sleep
TaskCancelled(t) ==
    /\ t \in DOMAIN tasks
    /\ tasks[t].state = "cancelling"
    /\ tasks' = [tasks EXCEPT ![t].state = "cancelled"]
    /\ UNCHANGED <<pipelineVars, managerVars, params, steps, step, provider_center_freq, step_task, callers>>
    /\ UNCHANGED scannerVars

\* interesting_activity up to its await, for the provider: it returns at
\* once when there is one step; the await raises the exception of a task
\* that has failed; it goes on without suspending when the task has finished
\* otherwise, and suspends when the task has not finished
CallEffect(c) ==
    IF not_stepping
    THEN UNCHANGED <<tasks, step_task, callers>>
    ELSE IF tasks[step_task].state = "failed"
    THEN /\ callers' = [callers EXCEPT ![c] = [pc |-> "raised", task |-> step_task]]
         /\ UNCHANGED <<tasks, step_task>>
    ELSE IF step_task \in Unfinished
    THEN /\ tasks' = [tasks EXCEPT ![step_task] = Cancel(tasks[step_task])]
         /\ callers' = [callers EXCEPT ![c] = [pc |-> "awaiting", task |-> step_task]]
         /\ UNCHANGED step_task
    ELSE /\ tasks' = RearmActive(tasks)
         /\ step_task' = Len(tasks')
         /\ UNCHANGED callers

\* a call of interesting_activity, up to its await
InterestingActivity(c) ==
    /\ callers[c].pc = "idle"
    /\ Room
    /\ CallEffect(c)
    /\ UNCHANGED <<pipelineVars, managerVars, params, steps, step, provider_center_freq>>
    /\ UNCHANGED scannerVars

\* interesting_activity from its await on: the CancelledError is caught and
\* the new task is created
Resume(c) ==
    /\ callers[c].pc = "awaiting"
    /\ tasks[callers[c].task].state = "cancelled"
    /\ tasks' = RearmActive(tasks)
    /\ step_task' = Len(tasks')
    /\ callers' = [callers EXCEPT ![c] = IdleCaller]
    /\ UNCHANGED <<pipelineVars, managerVars, params, steps, step, provider_center_freq>>
    /\ UNCHANGED scannerVars

\* a call that starts when no other call is in progress
SerialCall(c) ==
    /\ Suspended = {}
    /\ InterestingActivity(c)

NextSerial ==
    \/ \E t \in 1..MaxTasks : Advance(t)
    \/ \E t \in 1..MaxTasks : TaskCancelled(t)
    \/ \E c \in Callers : SerialCall(c)
    \/ \E c \in Callers : Resume(c)

SpecSerial == InitStepping /\ [][NextSerial]_vars

NextOverlap ==
    \/ \E t \in 1..MaxTasks : Advance(t)
    \/ \E t \in 1..MaxTasks : TaskCancelled(t)
    \/ \E c \in Callers : InterestingActivity(c)
    \/ \E c \in Callers : Resume(c)

SpecOverlap == InitStepping /\ [][NextOverlap]_vars

----------------------------------------------------------------------------
(* The frequency provider with its timers.  The event loop runs what is    *)
(* ready before it waits, so time passes only when no task is to be        *)
(* cancelled, no caller is to be resumed and no sleep has ended.           *)

\* How long the clock of the timed provider runs
MaxClock == 34

Ready ==
    \/ \E t \in Armed : now >= Due(tasks[t])
    \/ \E t \in DOMAIN tasks : tasks[t].state = "cancelling"
    \/ \E c \in Suspended : tasks[callers[c].task].state = "cancelled"

\* the event loop waits for its next timer
Elapse ==
    /\ ~Ready
    /\ now < MaxClock
    /\ now' = now + 1
    /\ UNCHANGED <<record, max_recording, center_freq, demod, priority_channels,
                   lockouts, lockout_baseband, chans, idx, pc, events, channels>>
    /\ UNCHANGED <<providerVars, managerVars, pipelineVars>>

\* the asyncio.sleep of task t ends and step_if_no_activity goes on
Expire(t) ==
    /\ t \in Armed
    /\ now >= Due(tasks[t])
    /\ Advance(t)

\* the task that runs scan_cycle, the caller of interesting_activity in ham2mon
MainTask == 1

\* the provider of a scanner that does not record
InitTimed == InitStepping /\ ~record /\ max_recording = 0

NextTimed ==
    \/ Elapse
    \/ \E t \in 1..MaxTasks : Expire(t)
    \/ \E t \in 1..MaxTasks : TaskCancelled(t)
    \/ SerialCall(MainTask)
    \/ Resume(MainTask)

SpecTimed ==
    /\ InitTimed
    /\ [][NextTimed]_vars
    /\ WF_vars(Elapse)
    /\ WF_vars(\E t \in 1..MaxTasks : Expire(t))

----------------------------------------------------------------------------
(* The frequency provider when notify_scanner can raise *)

\* Where Scanner.center_freq_changed raises: in the receiver before anything
\* is changed, or in update_priority when the priority file cannot be read
FailurePoints == {"receiver", "priority"}

\* step_if_no_activity after its sleep when notify_scanner raises: the step
\* and the center are set, the exception ends the task, no task is created
AdvanceFails(t, at) ==
    /\ t \in Armed
    /\ MainSuspended
    /\ step' = NextStep
    /\ provider_center_freq' = steps[step' + 1]
    /\ IF at = "priority"
       THEN /\ center_freq' = provider_center_freq'
            /\ priority_channels' = <<>>
            /\ UNCHANGED <<record, max_recording, now, demod, lockouts,
                           lockout_baseband, chans, idx, pc, events, channels>>
       ELSE UNCHANGED scannerVars
    /\ tasks' = [tasks EXCEPT ![t].state = "failed"]
    /\ UNCHANGED <<pipelineVars, managerVars, params, steps, step_task, callers>>

NextFaulty ==
    \/ \E t \in 1..MaxTasks : Advance(t)
    \/ \E t \in 1..MaxTasks, at \in FailurePoints : AdvanceFails(t, at)
    \/ \E t \in 1..MaxTasks : TaskCancelled(t)
    \/ \E c \in Callers : SerialCall(c)
    \/ \E c \in Callers : Resume(c)

SpecFaulty == InitStepping /\ [][NextFaulty]_vars

----------------------------------------------------------------------------
(* The scan cycle of a scanner whose provider steps.  Each call of         *)
(* demodulator.set_center_freq is a step of the main task; when the        *)
(* message it logs is interesting the main task calls interesting_activity *)
(* and is suspended until the cancelled task has finished.                 *)

\* ChannelMessage.file and ChannelMessage.classification that are None
NoWav == "None"

NoClass == "None"

\* interesting that takes every on message
interesting_when_on(msg) == msg.state = "on"

\* Scanner.interesting
interesting(msg) ==
    \/ record /\ msg.file # NoWav
    \/ ~record /\ msg.state = "on"

\* The message as set_center_freq logs it: the off message of a recording
\* tuner has the file that _persist_wavfile kept
Persisted(msg, kept) ==
    [state |-> msg.state, frequency |-> msg.frequency, channel |-> msg.channel,
     file |-> IF record /\ msg.state = "off" /\ kept THEN "wav" ELSE NoWav,
     classification |-> NoClass]

\* got_provider_activity for the messages of one set_center_freq
Notify(msgs, kept) ==
    IF \E i \in DOMAIN msgs : interesting(Persisted(msgs[i], kept))
    THEN Room /\ CallEffect(MainTask)
    ELSE UNCHANGED <<tasks, step_task, callers>>

MainRunning == callers[MainTask].pc = "idle"

\* scan_cycle: _get_raw_channels
CycleBegin(raws) ==
    /\ pc = "idle"
    /\ MainRunning
    /\ chans' = get_raw_channels(raws, center_freq)
    /\ pc' = "release"
    /\ idx' = 1
    /\ events' = <<>>
    /\ UNCHANGED <<record, max_recording, now, center_freq, demod, priority_channels,
                   lockouts, lockout_baseband, channels>>
    /\ UNCHANGED <<providerVars, managerVars, pipelineVars>>

\* scan_cycle: one iteration of the loop of _process_current_demodulators
ReleaseOne(kept) ==
    /\ pc = "release"
    /\ MainRunning
    /\ LET st == ReleaseSlot([dm |-> demod, ev |-> <<>>, crashed |-> FALSE], idx, chans)
       IN  /\ demod' = st.dm
           /\ events' = events \o st.ev
           /\ pc' = IF st.crashed THEN "crashed"
                    ELSE IF idx = NumDemod THEN "assign" ELSE "release"
           /\ Notify(st.ev, kept)
    /\ idx' = IF idx = NumDemod THEN 1 ELSE idx + 1
    /\ UNCHANGED <<record, max_recording, now, center_freq, priority_channels,
                   lockouts, lockout_baseband, chans, channels>>
    /\ UNCHANGED <<pipelineVars, managerVars, params, steps, step, provider_center_freq>>

\* scan_cycle: one iteration of the loop of _assign_channels_to_demodulators
AssignOne(kept) ==
    /\ pc = "assign"
    /\ MainRunning
    /\ idx <= Len(chans)
    /\ LET st == AssignChannel([dm |-> demod, ev |-> <<>>], chans[idx])
       IN  /\ demod' = st.dm
           /\ events' = events \o st.ev
           /\ Notify(st.ev, kept)
    /\ idx' = idx + 1
    /\ UNCHANGED <<record, max_recording, now, center_freq, priority_channels,
                   lockouts, lockout_baseband, chans, pc, channels>>
    /\ UNCHANGED <<pipelineVars, managerVars, params, steps, step, provider_center_freq>>

\* scan_cycle: _add_metadata, once the main task is back from its last call
PublishEnd == MainRunning /\ Publish

NextSweep ==
    \/ \E i \in 1..(NumDemod + Cardinality(RawChannels)) : AddLockout(i)
    \/ \E raws \in EstimatorOutputs : CycleBegin(raws)
    \/ \E kept \in BOOLEAN : ReleaseOne(kept)
    \/ \E kept \in BOOLEAN : AssignOne(kept)
    \/ PublishEnd
    \/ \E t \in 1..MaxTasks : Advance(t)
    \/ \E t \in 1..MaxTasks : TaskCancelled(t)
    \/ Resume(MainTask)

SpecSweep == InitStepping /\ [][NextSweep]_vars


----------------------------------------------------------------------------
(* Step generation: Scanner.__init__ creates the provider from the         *)
(* frequencies of the command line (-f, one or more singles or lo-hi       *)
(* ranges in Hz, and -r, the sample rate), and the provider then steps     *)
(* through what _get_steps returned.                                       *)

\* -r: an even and an odd sample rate
StepRates == {3000000, 3000001}

\* -f with a single frequency
SingleChoices == {<<>>, <<356000000>>, <<356000000, 146000000>>}

\* -f with a range: lower frequencies and widths (upper - lower)
LowerFreqs == {450000000, 144000000}

Widths == {2, 3000000, 3000001, 6000001, 9000000, 10000000}

RangeChoices ==
    {[lower_freq |-> lo, upper_freq |-> lo + w] : lo \in LowerFreqs, w \in Widths}

\* How many ranges a command line of the model has
MaxRanges == 2

RangeLists == UNION {[1..n -> RangeChoices] : n \in 0..MaxRanges}

\* argparse's nargs='+': at least one frequency
Groups ==
    {FrequencyGroup(s, r, sr) : s \in SingleChoices, r \in RangeLists, sr \in StepRates}
        \ {FrequencyGroup(<<>>, <<>>, sr) : sr \in StepRates}

\* Scanner.__init__ before it creates the provider
InitSteps ==
    /\ params \in Groups
    /\ steps = <<>>
    /\ step = 0
    /\ provider_center_freq = 0
    /\ tasks = <<>>
    /\ step_task = 0
    /\ callers = [c \in Callers |-> IdleCaller]
    /\ NoManager
    /\ NoPipeline
    /\ InitScanner(0)
    /\ ~record
    /\ max_recording = 0

\* FrequencyProvider.__init__, and the center the scanner takes from it
NewProvider ==
    /\ steps = <<>>
    /\ steps' = get_steps(params)
    /\ step' = 0
    /\ provider_center_freq' = steps'[1]
    /\ tasks' = IF Len(steps') = 1 THEN tasks ELSE CreateTask(tasks, "quiet")
    /\ step_task' = Len(tasks')
    /\ center_freq' = provider_center_freq'
    /\ UNCHANGED <<pipelineVars, managerVars, params, callers, record, max_recording, now, demod,
                   priority_channels, lockouts, lockout_baseband, chans, idx,
                   pc, events, channels>>

NextSteps ==
    \/ NewProvider
    \/ \E t \in 1..MaxTasks : Advance(t)

SpecSteps == InitSteps /\ [][NextSteps]_vars

----------------------------------------------------------------------------
(* The frequency manager: entries are added and changed, the center        *)
(* frequency is set, and the frequencies are queried for a lockout and for *)
(* priorities.                                                             *)

\* How many entries the frequencies of the model hold
MaxEntries == 2

\* The singles and the ranges of the entries, in Hz: 0.0 and 1.01 MHz,
\* 0.0-1.01 MHz and 1.005-1.015 MHz
EntrySingles == {0, 1010000}

EntryRanges == {<<0, 1010000>>, <<1005000, 1015000>>}

\* The priorities of the entries
Priorities == {None, 1, 2}

\* The dict of a call: a key that it does not have is at its default
Entry(single, lo, hi, label, locked, priority, keys, mode_add) ==
    [single |-> single, lo |-> lo, hi |-> hi,
     label |-> IF "label" \in keys THEN label ELSE NoLabel,
     locked |-> IF "locked" \in keys THEN locked ELSE "False",
     priority |-> IF "priority" \in keys THEN priority ELSE None,
     saved |-> FALSE, keys |-> keys, mode_add |-> mode_add]

\* The dicts of the calls that lead to the frequencies that are queried
Entries ==
    {Entry(s, None, None, NoLabel, l, p, k, m) :
        s \in EntrySingles, l \in {"True", "False"}, p \in Priorities,
        k \in SUBSET {"priority", "locked"}, m \in {FALSE}}
    \cup
    {Entry(None, r[1], r[2], NoLabel, l, p, k, m) :
        r \in EntryRanges, l \in {"True", "False"}, p \in Priorities,
        k \in SUBSET {"priority", "locked"}, m \in {FALSE}}

\* The dicts that are added: the ones with every key
EntriesToAdd == {e \in Entries : e.keys = {"priority", "locked"}}

\* The hardware center frequencies of set_center: 0 Hz is then a baseband
\* of the receiver, SampRate / 2 at most from the center
ManagerCenters == {1000000, 1002000}

\* The basebands that are asked about, and 0 for an idle demodulator
Basebands == {0 - 1000000, 0, 10000, 20000}

\* FrequencyManager.__init__ with the toggles of the command line
InitManager ==
    /\ \E c \in Centers :
          /\ InitScanner(c)
          /\ params = FrequencyGroup(<<c>>, <<>>, SampRate)
          /\ steps = get_steps(params)
          /\ provider_center_freq = steps[1]
    /\ ~record
    /\ max_recording = 0
    /\ step = 0
    /\ tasks = <<>>
    /\ step_task = 0
    /\ callers = [c \in Callers |-> IdleCaller]
    /\ frequencies = <<>>
    /\ manager_center = None
    /\ config \in [file_name : {NoFile}, disable_lockout : BOOLEAN, disable_priority : BOOLEAN]
    /\ answer = NoAnswer
    /\ NoPipeline

\* matching_frequencies of add, and the entries that change compares equal
Matching(fs, wanted) ==
    {i \in DOMAIN fs : ConfigFrequencyEq(wanted, fs[i])}

\* the frequencies after FrequencyManager.add has appended the entry
Added(fs, wanted) ==
    Append(fs,
           IF Truthy(manager_center)
           THEN calculate_baseband(wanted, manager_center, ChannelSpacing)
           ELSE wanted)

\* What a call leaves: the frequencies, and the message of the exception
\* that it raised ("none" without one)
Left(fs, error) == [frequencies |-> fs, error |-> error]

\* FrequencyManager.add on the frequencies fs
add_to(fs, entry) ==
    IF ValueErrorOf(entry) # "none" THEN Left(fs, ValueErrorOf(entry))
    ELSE IF Matching(fs, ConfigFrequency(entry)) # {}
    THEN Left(fs, "already occurs in list")
    ELSE Left(Added(fs, ConfigFrequency(entry)), "none")

\* FrequencyManager.change on the frequencies fs: the first equal entry takes
\* the label, priority and locked that the dict has; with no equal entry the
\* dict is added when its mode is 'add'
change_in(fs, entry) ==
    IF ValueErrorOf(entry) # "none" THEN Left(fs, ValueErrorOf(entry))
    ELSE LET new_values == ConfigFrequency(entry)
             found == Matching(fs, new_values)
         IN  IF found # {}
             THEN LET i == CHOOSE k \in found : \A j \in found : k <= j
                  IN  Left([fs EXCEPT
                              ![i].label = IF "label" \in entry.keys
                                           THEN new_values.label ELSE @,
                              ![i].priority = IF "priority" \in entry.keys
                                              THEN new_values.priority ELSE @,
                              ![i].locked = IF "locked" \in entry.keys
                                            THEN new_values.locked ELSE @],
                           "none")
             ELSE IF entry.mode_add THEN add_to(fs, entry)
             ELSE Left(fs, "not found in frequencies list")

\* FrequencyManager.add; the frequencies of the model hold MaxEntries
\* entries at most
add(entry) ==
    /\ LET left == add_to(frequencies, entry)
       IN  /\ Len(left.frequencies) <= MaxEntries
           /\ frequencies' = left.frequencies
           /\ answer' = Failed(left.error)
    /\ UNCHANGED <<manager_center, config>>
    /\ UNCHANGED <<scannerVars, providerVars, pipelineVars>>

\* FrequencyManager.change
change(entry) ==
    /\ LET left == change_in(frequencies, entry)
       IN  /\ Len(left.frequencies) <= MaxEntries
           /\ frequencies' = left.frequencies
           /\ answer' = Failed(left.error)
    /\ UNCHANGED <<manager_center, config>>
    /\ UNCHANGED <<scannerVars, providerVars, pipelineVars>>

\* FrequencyManager.set_center and generate_baseband_frequencies
set_center(center) ==
    /\ manager_center' = center
    /\ frequencies' = [i \in DOMAIN frequencies |->
                          calculate_baseband(frequencies[i], center, ChannelSpacing)]
    /\ answer' = NoAnswer
    /\ UNCHANGED config
    /\ UNCHANGED <<scannerVars, providerVars, pipelineVars>>

\* one call of locked_out(bb) and is_priority(bb) for every baseband of the
\* model and of is_higher_priority(bb, demod_freq) for every two of them
Ask ==
    /\ answer' = [asked |-> TRUE, error |-> "none",
                  locked_out |-> [bb \in Basebands |-> fm_locked_out(bb)],
                  is_priority |-> [bb \in Basebands |-> fm_is_priority(bb)],
                  is_higher_priority |->
                      [pair \in Basebands \X Basebands |->
                          fm_is_higher_priority(pair[1], pair[2])]]
    /\ UNCHANGED <<frequencies, manager_center, config>>
    /\ UNCHANGED <<scannerVars, providerVars, pipelineVars>>

NextManager ==
    \/ \E e \in EntriesToAdd : add(e)
    \/ \E e \in Entries : change(e)
    \/ \E c \in ManagerCenters : set_center(c)
    \/ Ask

SpecManager == InitManager /\ [][NextManager]_vars

----------------------------------------------------------------------------
(* The frequencies as they are kept: entries are loaded from the           *)
(* configuration file, added and changed with dicts that are valid or not, *)
(* and the center frequency is set before or after.                        *)

\* The frequencies of the valid dicts: the singles 0.0 and 1.01 MHz and the
\* range 1.005-1.015 MHz, as <<single, lo, hi>>
KeptFrequencies ==
    {<<0, None, None>>, <<1010000, None, None>>, <<None, 1005000, 1015000>>}

AllKeys == {"label", "priority", "locked"}

\* The keys a dict has next to its frequency: none, one or all
KeySets == {{}, {"label"}, {"priority"}, {"locked"}, AllKeys}

\* The valid dicts: each of label, priority and locked is missing or has
\* the one value that is not its default
ValidEntries ==
    {Entry(f[1], f[2], f[3], "a", "True", 1, k, m) :
        f \in KeptFrequencies, k \in KeySets, m \in BOOLEAN}

\* One dict for each ValueError of ConfigFrequency
InvalidEntries ==
    {Entry(1010000, None, None, "a", "yes", None, AllKeys, FALSE),
     Entry(1010000, None, None, "a", "False", 0, AllKeys, FALSE),
     Entry(None, None, None, "a", "False", None, AllKeys, FALSE),
     Entry(1010000, 1005000, 1015000, "a", "False", None, AllKeys, FALSE),
     Entry(None, 1005000, None, "a", "False", None, AllKeys, FALSE),
     Entry(0 - 5000, None, None, "a", "False", None, AllKeys, FALSE),
     Entry(None, 1015000, 1005000, "a", "False", None, AllKeys, FALSE)}

\* The dicts of add, which does not read `mode`
AddEntries == {e \in ValidEntries \cup InvalidEntries : ~e.mode_add}

\* The configuration files by name: the entries under `frequencies`
Files ==
    [name \in {"frequencies.yaml"} |->
        << Entry(None, 1005000, 1015000, "a", "True", 1, AllKeys, FALSE) >>]

\* The hardware center frequencies of set_center
KeptCenters == {0, 1000000}

\* FrequencyManager.__init__ with or without a file name
InitKept ==
    /\ \E c \in Centers :
          /\ InitScanner(c)
          /\ params = FrequencyGroup(<<c>>, <<>>, SampRate)
          /\ steps = get_steps(params)
          /\ provider_center_freq = steps[1]
    /\ ~record
    /\ max_recording = 0
    /\ step = 0
    /\ tasks = <<>>
    /\ step_task = 0
    /\ callers = [c \in Callers |-> IdleCaller]
    /\ frequencies = <<>>
    /\ manager_center = None
    /\ config \in [file_name : {NoFile} \cup DOMAIN Files,
                   disable_lockout : {FALSE}, disable_priority : {FALSE}]
    /\ answer = NoAnswer
    /\ NoPipeline

\* FrequencyManager.process_frequencies_data: every entry of the file is
\* added as saved, up to the first that raises
RECURSIVE process_frequencies_data(_, _)
process_frequencies_data(fs, entries) ==
    IF entries = <<>> THEN Left(fs, "none")
    ELSE LET left == add_to(fs, [Head(entries) EXCEPT !.saved = TRUE])
         IN  IF left.error # "none" THEN left
             ELSE process_frequencies_data(left.frequencies, Tail(entries))

\* FrequencyManager.load, of a file that is there and is YAML
load ==
    /\ IF config.file_name = NoFile
       THEN /\ frequencies' = <<>>
            /\ answer' = NoAnswer
       ELSE LET left == process_frequencies_data(frequencies, Files[config.file_name])
            IN  /\ Len(left.frequencies) <= MaxEntries
                /\ frequencies' = left.frequencies
                /\ answer' = Failed(left.error)
    /\ UNCHANGED <<manager_center, config>>
    /\ UNCHANGED <<scannerVars, providerVars, pipelineVars>>

NextKept ==
    \/ load
    \/ \E e \in AddEntries : add(e)
    \/ \E e \in ValidEntries \cup InvalidEntries : change(e)
    \/ \E c \in KeptCenters : set_center(c)

SpecKept == InitKept /\ [][NextKept]_vars

----------------------------------------------------------------------------
(* The channel messages: a demodulator or a log_active task passes a       *)
(* message to ChannelLogger.log, which gives it to the scanner             *)
(* (got_provider_activity) and then delivers it.                           *)

\* The classes of ChannelLogger.get_logger, "none" for the NoOp
LoggerTypes == {"none", "debug", "fixed-field", "json-server"}

\* The radio frequencies of the messages: one of the priority file, one not
MessageFrequencies == {146015000, 146010000}

Classifications == {"V", "D", "S"}

ChannelMessage(state, frequency, channel, file, classification) ==
    [state |-> state, frequency |-> frequency, channel |-> channel,
     file |-> file, classification |-> classification]

\* The messages of BaseTuner.set_center_freq and of log_active: on, act and
\* the off of a tuner that does not record have no file; the off of
\* _persist_wavfile has the file that was kept and the classification that
\* was found
Messages ==
    {ChannelMessage(st, rf, 1, NoWav, NoClass) :
        st \in {"on", "off", "act"}, rf \in MessageFrequencies}
    \cup {ChannelMessage("off", rf, 1, "wav", NoClass) : rf \in MessageFrequencies}
    \cup {ChannelMessage("off", rf, 1, file, c) :
            rf \in MessageFrequencies, file \in {NoWav, "wav"}, c \in Classifications}

\* whether the program makes the message with the current --record
Made(msg) == record \/ (msg.file = NoWav /\ msg.classification = NoClass)

\* How many messages a cycle logs
MaxLogged == 1

\* How many transmissions of one classification are counted for a frequency
MaxCount == 2

\* the log_active tasks a run creates
MaxActTasks == 2

\* ClassificationCount()
NoCount == [V |-> 0, D |-> 0, S |-> 0]

\* self.xmit_stats[freq] after the message is counted
Counted(freq, classification) ==
    [(IF freq \in DOMAIN xmit_stats THEN xmit_stats[freq] ELSE NoCount)
        EXCEPT ![classification] = @ + 1]

\* remove that leaves the list as it is
NotRemoved(autos, freq) == autos

\* list.remove(freq)
Removed(autos, freq) == SelectSeq(autos, LAMBDA rf : rf # freq)

\* Scanner.priority_assess
priority_assess(freq, classification) ==
    IF ~auto_priority \/ classification = NoClass
    THEN UNCHANGED <<xmit_stats, auto_priority_frequencies, priority_channels>>
    ELSE LET metrics == Counted(freq, classification)
         IN  /\ metrics[classification] <= MaxCount
             /\ xmit_stats' = [rf \in DOMAIN xmit_stats \cup {freq} |->
                                  IF rf = freq THEN metrics ELSE xmit_stats[rf]]
             /\ IF metrics.V > metrics.D /\ metrics.V > metrics.S
                THEN IF freq \notin Range(auto_priority_frequencies)
                     THEN /\ auto_priority_frequencies' =
                                Append(auto_priority_frequencies, freq)
                          /\ priority_channels' =
                                update_priority(auto_priority_frequencies', center_freq)
                     ELSE UNCHANGED <<auto_priority_frequencies, priority_channels>>
                ELSE IF freq \in Range(auto_priority_frequencies)
                     THEN /\ auto_priority_frequencies' =
                                Removed(auto_priority_frequencies, freq)
                          /\ priority_channels' =
                                update_priority(auto_priority_frequencies', center_freq)
                     ELSE UNCHANGED <<auto_priority_frequencies, priority_channels>>

\* Scanner.got_provider_activity
got_provider_activity(msg) ==
    /\ IF interesting(msg)
       THEN Room /\ CallEffect(MainTask)
       ELSE UNCHANGED <<tasks, step_task, callers>>
    /\ priority_assess(msg.frequency, msg.classification)

\* whether log raises after the scanner was notified: FixedField opens and
\* writes its file without a try, JsonToServer catches the exceptions of
\* requests, Debug and NoOp deliver nothing
Raises(delivered) == logger = "fixed-field" /\ ~delivered

\* the state of an asyncio task after Task.cancel(): a task that sleeps gets
\* the CancelledError at its await, a finished task is left as it is
cancel(state) == IF state = "sleeping" THEN "cancelling" ELSE state

\* whether handle_channel_state has something to do: NoOp.log never calls it,
\* and it returns at once when the timeout is 0
Watching == logger # "none" /\ log_timeout # 0

\* the dictionary log_task, the tasks it created and the last state logged
LoggerState ==
    [log_task |-> log_task, act_tasks |-> act_tasks, last_state |-> last_state]

\* whether the off branch of handle_channel_state reads log_task[channel] of
\* a channel that has no key in the dictionary
KeyError(lg, msg) == Watching /\ msg.state = "off" /\ lg.log_task[msg.channel] = 0

\* ChannelLogger.handle_channel_state(msg): on creates the log_active task of
\* the channel and stores it, off cancels the stored one
handle_channel_state(lg, msg) ==
    IF Watching /\ msg.state = "on"
    THEN [lg EXCEPT !.act_tasks = Append(@, [channel |-> msg.channel,
                                             frequency |-> msg.frequency,
                                             state |-> "sleeping", acts |-> 0]),
                    !.log_task[msg.channel] = Len(lg.act_tasks) + 1]
    ELSE IF Watching /\ msg.state = "off"
    THEN [lg EXCEPT !.act_tasks[lg.log_task[msg.channel]].state = cancel(@)]
    ELSE lg

\* whether log(msg) raises in its caller
LogRaises(lg, msg, delivered) == Raises(delivered) \/ KeyError(lg, msg)

\* log(msg) of the logger in use, after the scanner was notified: the message
\* is delivered, handle_channel_state runs when nothing was raised before it
log(lg, msg, delivered) ==
    LET noted == IF msg.state \in {"on", "off"}
                 THEN [lg EXCEPT !.last_state[msg.channel] =
                          [state |-> msg.state, frequency |-> msg.frequency]]
                 ELSE lg
    IN  IF LogRaises(lg, msg, delivered) THEN noted
        ELSE handle_channel_state(noted, msg)

\* the logger is left in state lg
LoggerBecomes(lg) ==
    /\ log_task' = lg.log_task
    /\ act_tasks' = lg.act_tasks
    /\ last_state' = lg.last_state

\* ChannelLogger.log(msg) of the logger in use, called by the main task;
\* delivered tells whether the write or the post succeeds
Log(msg, delivered) ==
    /\ pc = "idle"
    /\ MainRunning
    /\ Made(msg)
    /\ Len(events) < MaxLogged
    /\ events' = Append(events, msg)
    /\ got_provider_activity(msg)
    /\ Len(log(LoggerState, msg, delivered).act_tasks) <= MaxActTasks
    /\ LoggerBecomes(log(LoggerState, msg, delivered))
    /\ pc' = IF LogRaises(LoggerState, msg, delivered) THEN "crashed" ELSE pc
    /\ UNCHANGED <<record, max_recording, now, center_freq, demod, lockouts,
                   lockout_baseband, chans, idx, channels>>
    /\ UNCHANGED <<params, steps, step, provider_center_freq>>
    /\ UNCHANGED <<managerVars, auto_priority, logger, log_timeout>>

\* the next scan cycle starts with no message logged
NewCycle ==
    /\ pc = "idle"
    /\ events # <<>>
    /\ events' = <<>>
    /\ UNCHANGED <<record, max_recording, now, center_freq, demod, priority_channels,
                   lockouts, lockout_baseband, chans, idx, pc, channels>>
    /\ UNCHANGED <<providerVars, managerVars, pipelineVars>>

\* a scanner whose provider steps, with one of the channel loggers
InitActivity ==
    /\ SteppingScanner
    /\ NoManager
    /\ auto_priority = FALSE
    /\ xmit_stats = [rf \in {} |-> NoCount]
    /\ auto_priority_frequencies = <<>>
    /\ logger \in LoggerTypes
    /\ log_timeout = 0
    /\ NoActTasks

NextActivity ==
    \/ \E msg \in Messages, delivered \in BOOLEAN : Log(msg, delivered)
    \/ NewCycle
    \/ \E t \in 1..MaxTasks : Advance(t)
    \/ \E t \in 1..MaxTasks : TaskCancelled(t)
    \/ Resume(MainTask)

SpecActivity == InitActivity /\ [][NextActivity]_vars

\* a scanner with one center frequency, with or without --auto_priority
InitStats ==
    /\ PlainScanner
    /\ NoManager
    /\ auto_priority \in BOOLEAN
    /\ xmit_stats = [rf \in {} |-> NoCount]
    /\ auto_priority_frequencies = <<>>
    /\ NoLogger

NextStats ==
    \/ \E msg \in Messages, delivered \in BOOLEAN : Log(msg, delivered)
    \/ NewCycle
    \/ \E c \in Centers : SetCenterFreq(c)

SpecStats == InitStats /\ [][NextStats]_vars

----------------------------------------------------------------------------
(* channel_loggers.py, BaseTuner.py: the log_active tasks                  *)
(*                                                                         *)
(* set_center_freq awaits log for its off message, retunes, and awaits log *)
(* for its on message; nothing in between gives the event loop another     *)
(* task to run when the provider has one step, so the call is one step.    *)
(* A log_active task runs when the main task sleeps between two cycles.    *)

\* the --log_active_timeout values
Timeouts == {0, 1}

\* the basebands a slot is tuned to, 0 to release it
TuneTargets == {0, 10000, 20000}

\* a center that is a multiple of the channel spacing and one that is not
OffsetCenters == {146000000, 146002000}

\* the act messages one log_active task logs
MaxActs == 1

\* a scanner with one center frequency and --max_recording 1, with or
\* without --write, with one of the channel loggers
InitLogged ==
    /\ PlainScanner
    /\ max_recording = 1
    /\ NoManager
    /\ auto_priority = FALSE
    /\ xmit_stats = [rf \in {} |-> NoCount]
    /\ auto_priority_frequencies = <<>>
    /\ logger \in LoggerTypes
    /\ log_timeout \in Timeouts
    /\ NoActTasks

\* BaseTuner.set_center_freq(bb, center_freq) of slot s, called by scan_cycle;
\* kept tells whether _persist_wavfile keeps the file, fails which of the
\* two log calls cannot deliver its message (0 for none)
Retune(s, bb, kept, fails) ==
    /\ pc = "idle"
    /\ MainRunning
    /\ bb # demod[s].center_freq
    /\ bb = 0 \/ bb \notin DemodFreqSet(demod)
    /\ LET off == OffEvents(demod[s], s)
           offm == Persisted(off[1], kept)
           raised1 == off # <<>> /\ LogRaises(LoggerState, offm, fails # 1)
           lg1 == IF off = <<>> THEN LoggerState
                  ELSE log(LoggerState, offm, fails # 1)
           onm == Persisted(Msg("on", bb, s), kept)
           raised2 == ~raised1 /\ bb # 0 /\ LogRaises(lg1, onm, fails # 2)
           lg2 == IF raised1 \/ bb = 0 THEN lg1 ELSE log(lg1, onm, fails # 2)
           sent == IF raised1 THEN off ELSE TuneEvents(demod[s], s, bb)
       IN  /\ Len(lg2.act_tasks) <= MaxActTasks
           /\ demod' = IF raised1 THEN demod
                       ELSE [demod EXCEPT ![s] = TunedSlot(demod[s], bb)]
           /\ LoggerBecomes(lg2)
           /\ Notify(sent, kept)
           /\ events' = [i \in DOMAIN sent |-> Persisted(sent[i], kept)]
           /\ pc' = IF raised1 \/ raised2 THEN "crashed" ELSE "idle"
    /\ UNCHANGED <<record, max_recording, now, center_freq, priority_channels,
                   lockouts, lockout_baseband, chans, idx, channels>>
    /\ UNCHANGED <<params, steps, step, provider_center_freq, managerVars>>
    /\ UNCHANGED <<auto_priority, xmit_stats, auto_priority_frequencies,
                   logger, log_timeout>>

\* log_active after its sleep: the act message is logged; an exception of
\* log ends the task, and nothing awaits the task
ActFires(t, delivered) ==
    /\ pc = "idle"
    /\ MainRunning
    /\ t \in DOMAIN act_tasks
    /\ act_tasks[t].state = "sleeping"
    /\ act_tasks[t].acts < MaxActs
    /\ LET msg == ChannelMessage("act", act_tasks[t].frequency,
                                 act_tasks[t].channel, NoWav, NoClass)
           lg == log(LoggerState, msg, delivered)
       IN  /\ got_provider_activity(msg)
           /\ LoggerBecomes(
                 [lg EXCEPT !.act_tasks[t] =
                     IF LogRaises(LoggerState, msg, delivered)
                     THEN [@ EXCEPT !.state = "failed"]
                     ELSE [@ EXCEPT !.acts = @ + 1]])
    /\ UNCHANGED <<record, max_recording, now, center_freq, demod, lockouts,
                   lockout_baseband, chans, idx, pc, events, channels>>
    /\ UNCHANGED <<params, steps, step, provider_center_freq, managerVars>>
    /\ UNCHANGED <<auto_priority, logger, log_timeout>>

\* the CancelledError raised in log_active at its sleep
ActCancelled(t) ==
    /\ pc = "idle"
    /\ t \in DOMAIN act_tasks
    /\ act_tasks[t].state = "cancelling"
    /\ act_tasks' = [act_tasks EXCEPT ![t].state = "cancelled"]
    /\ UNCHANGED <<scannerVars, providerVars, managerVars>>
    /\ UNCHANGED <<auto_priority, xmit_stats, auto_priority_frequencies,
                   logger, log_timeout, log_task, last_state>>

NextLogged ==
    \/ \E c \in OffsetCenters : SetCenterFreq(c)
    \/ \E s \in Slots, bb \in TuneTargets, kept \in BOOLEAN, fails \in 0..2 :
          Retune(s, bb, kept, fails)
    \/ \E t \in 1..MaxActTasks, delivered \in BOOLEAN : ActFires(t, delivered)
    \/ \E t \in 1..MaxActTasks : ActCancelled(t)

SpecLogged == InitLogged /\ [][NextLogged]_vars

----------------------------------------------------------------------------
(* The scan cycle when several runs of the spectrum round to one channel,  *)
(* and when the center frequency is not a multiple of the channel spacing. *)

\* Estimator outputs of which 4900 and 5100 round to one channel at either
\* center
CloseChannels == {4900, 5100, 10100}

CloseOutputs == {Ascending(S) : S \in SUBSET CloseChannels}

NextClose ==
    \/ Tick
    \/ \E c \in OffsetCenters : SetCenterFreq(c)
    \/ \E raws \in CloseOutputs : Release(raws)
    \/ Assign
    \/ Publish

SpecClose == Init /\ [][NextClose]_vars

----------------------------------------------------------------------------
(* The scanner with a lockout file: LockoutManager.__init__ loads it, the  *)
(* l key of the interface loads it again.                                  *)

\* The frequencies of the lockout file, in Hz
LockoutFile == <<146010000>>

\* LockoutManager.load: the lockouts of the file, none of them generated in
\* baseband
LockoutLoad == [i \in DOMAIN LockoutFile |-> [freq |-> LockoutFile[i], saved |-> TRUE]]

\* Scanner.__init__ with --lockout
InitLocked ==
    /\ \E cfg \in Configs : record = cfg.record /\ max_recording = cfg.max_recording
    /\ now = 0
    /\ \E c \in Centers :
          /\ center_freq = c
          /\ params = FrequencyGroup(<<c>>, <<>>, SampRate)
          /\ steps = get_steps(params)
          /\ provider_center_freq = steps[1]
    /\ demod = [s \in Slots |-> IdleSlot]
    /\ priority_channels = <<>>
    /\ lockouts = LockoutLoad
    /\ lockout_baseband = <<>>
    /\ chans = <<>>
    /\ idx = 0
    /\ pc = "idle"
    /\ events = <<>>
    /\ channels = <<>>
    /\ step = 0
    /\ tasks = <<>>
    /\ step_task = 0
    /\ callers = [c \in Callers |-> IdleCaller]
    /\ NoManager
    /\ NoPipeline

\* Scanner.clear_lockout, from the l key of the interface
ClearLockout ==
    /\ pc = "idle"
    /\ lockouts' = LockoutLoad
    /\ UNCHANGED <<record, max_recording, now, center_freq, demod, priority_channels,
                   lockout_baseband, chans, idx, pc, events, channels>>
    /\ UNCHANGED <<providerVars, managerVars, pipelineVars>>

NextLocked ==
    \/ Tick
    \/ \E i \in 1..(NumDemod + Cardinality(CloseChannels)) : AddLockout(i)
    \/ ClearLockout
    \/ \E c \in Centers : SetCenterFreq(c)
    \/ \E raws \in CloseOutputs : Release(raws)
    \/ Assign
    \/ Publish

SpecLocked == InitLocked /\ [][NextLocked]_vars

----------------------------------------------------------------------------
(* The frequency provider of every command line of the model, with one     *)
(* step or with several: its task advances, interesting_activity is called *)

\* FrequencyProvider.__init__, inside Scanner.__init__
InitProvided ==
    /\ params \in Groups
    /\ steps = get_steps(params)
    /\ InitScanner(steps[1])
    /\ ~record
    /\ max_recording = 0
    /\ step = 0
    /\ provider_center_freq = steps[1]
    /\ tasks = IF not_stepping THEN <<>> ELSE CreateTask(<<>>, "quiet")
    /\ step_task = Len(tasks)
    /\ callers = [c \in Callers |-> IdleCaller]
    /\ NoManager
    /\ NoPipeline

NextProvided ==
    \/ \E t \in 1..MaxTasks : Advance(t)
    \/ \E t \in 1..MaxTasks : TaskCancelled(t)
    \/ \E c \in Callers : SerialCall(c)
    \/ \E c \in Callers : Resume(c)

SpecProvided == InitProvided /\ [][NextProvided]_vars
----------------------------------------------------------------------------
(* Properties of the scan cycle *)

\* The steps of scan_cycle, as actions
ReleaseStep == pc = "idle" /\ pc' \in {"assign", "crashed"}

AssignStep == pc = "assign" /\ pc' = "assign" /\ idx' = idx + 1

PublishStep == pc = "assign" /\ pc' = "idle"

Occupied(dm) == {s \in Slots : dm[s].center_freq # 0}

\* The priority of a baseband: its place in the priority list, 0 for none
Rank(bb) == Index(priority_channels, bb)

\* a has a strictly higher priority than b: it has one and b has none, or
\* its number is smaller
StrictlyHigher(a, b) == Rank(a) # 0 /\ (Rank(b) = 0 \/ Rank(a) < Rank(b))

Max(a, b) == IF a >= b THEN a ELSE b

\* C1: a slot tuned to a locked out baseband is released (tuned to 0) by the
\* Release step of the next scan_cycle, whether or not the baseband is in the
\* estimator output, and the Assign steps of that cycle tune no slot to a
\* locked out baseband.
C1_LockedReleased ==
    [][ /\ ReleaseStep =>
            \A s \in Occupied(demod) :
                locked_out(demod[s].center_freq) => demod'[s].center_freq = 0
        /\ AssignStep =>
            \A s \in Slots :
                demod'[s].center_freq # demod[s].center_freq
                    => ~locked_out(demod'[s].center_freq) ]_vars

C3_HangTimeHonoured ==
    [][ (ReleaseStep /\ record) =>
            \A s \in Occupied(demod) :
                ( /\ demod'[s].center_freq = 0
                  /\ demod[s].center_freq \notin Range(chans')
                  /\ ~locked_out(demod[s].center_freq)
                  /\ ~(max_recording > 0 /\ now - demod[s].time_stamp >= max_recording) )
                    => now - Max(demod[s].last_heard, demod[s].time_stamp) > HangTime ]_vars

\* The slot a channel preempts: the lowest occupied slot whose occupant has a
\* strictly lower priority
Preempted(dm, channel) ==
    CHOOSE s \in Slots :
        /\ StrictlyHigher(channel, dm[s].center_freq)
        /\ \A t \in 1..(s-1) : ~StrictlyHigher(channel, dm[t].center_freq)

\* C4: when the Assign step takes a channel that no slot holds and that is
\* not locked out, every slot is occupied and the channel has a strictly
\* higher priority than some occupant, the step retunes the lowest such slot
\* to the channel, leaves the other slots alone, and logs the off message of
\* the displaced baseband and then the on message of the new one, both for
\* that slot.
C4_PreemptsFirstLower ==
    [][ ( /\ AssignStep
          /\ Occupied(demod) = Slots
          /\ chans[idx] \notin DemodFreqSet(demod)
          /\ ~locked_out(chans[idx])
          /\ \E s \in Slots : StrictlyHigher(chans[idx], demod[s].center_freq) )
        => LET s0 == Preempted(demod, chans[idx]) IN
           /\ demod'[s0].center_freq = chans[idx]
           /\ \A t \in Slots \ {s0} : demod'[t] = demod[t]
           /\ events' = events \o << Msg("off", demod[s0].center_freq, s0),
                                     Msg("on", chans[idx], s0) >> ]_vars

\* An Assign step has preempted: the cycle logged off and then on for one
\* slot, and the baseband switched off was heard, not locked out and under
\* no recording limit, so that Release did not let it go.
C4_Witness ==
    /\ pc = "assign"
    /\ max_recording = 0
    /\ Occupied(demod) = Slots
    /\ \E i \in 1..(Len(events) - 1) :
          /\ events[i].state = "off"
          /\ events[i+1].state = "on"
          /\ events[i].channel = events[i+1].channel
          /\ events[i].frequency - center_freq \in Range(chans)
          /\ ~locked_out(events[i].frequency - center_freq)
          /\ StrictlyHigher(events[i+1].frequency - center_freq,
                            events[i].frequency - center_freq)

\* C5: an Assign step changes an occupied slot only to a channel of strictly
\* higher priority than its occupant; when every slot is occupied and the
\* channel is of strictly higher priority than none of the occupants, the
\* step changes no slot and logs nothing.
C5_OnlyStrictlyHigherDisplaces ==
    [][ AssignStep =>
          /\ \A s \in Occupied(demod) :
                demod'[s] # demod[s] =>
                    /\ demod'[s].center_freq = chans[idx]
                    /\ StrictlyHigher(chans[idx], demod[s].center_freq)
          /\ ( /\ Occupied(demod) = Slots
               /\ \A s \in Slots : ~StrictlyHigher(chans[idx], demod[s].center_freq) )
             => (demod' = demod /\ events' = events) ]_vars

\* The Assign step has just dropped a channel: it is heard, not locked out,
\* held by no slot, and every slot is occupied.
C5_Witness ==
    /\ pc = "assign"
    /\ idx > 1
    /\ Occupied(demod) = Slots
    /\ chans[idx - 1] \notin DemodFreqSet(demod)
    /\ ~locked_out(chans[idx - 1])

\* The slots the current cycle has tuned: an on message was logged for them
NewlyTuned ==
    {s \in Slots : \E i \in DOMAIN events :
        events[i] = Msg("on", demod[s].center_freq, s)}

\* C6: at the end of Assign, no channel of the estimator output that is not
\* locked out and was left without a slot has a strictly higher priority
\* than a channel that the cycle gave a slot to.
C6_SlotsGoToHighestPriority ==
    (pc = "assign" /\ idx > Len(chans)) =>
        \A i \in DOMAIN chans :
            (chans[i] \notin DemodFreqSet(demod) /\ ~locked_out(chans[i]))
                => \A s \in NewlyTuned : ~StrictlyHigher(chans[i], demod[s].center_freq)

\* C7: between two cycles, running scan_cycle twice on the same estimator
\* output, registry and time, the second run tunes no slot, logs nothing and
\* publishes the list that the first run published.
C7_Idempotent ==
    pc = "idle" =>
        \A raws \in EstimatorOutputs :
            LET r1 == scan_cycle(demod, raws)
                r2 == scan_cycle(r1.dm, raws)
            IN  (~r1.crashed /\ ~r2.crashed) =>
                    /\ get_demod_freqs(r2.dm) = get_demod_freqs(r1.dm)
                    /\ r2.ev = <<>>
                    /\ r2.channels = r1.channels

\* C8: an Assign step tunes a slot only to the channel it takes from the
\* estimator output of the cycle, and that channel is not 0, not locked out
\* and held by no slot; a Release step on an empty estimator output with all
\* slots idle changes no slot and logs nothing, and Publish changes no slot.
C8_TunesOnlyEligible ==
    [][ /\ AssignStep =>
            \A s \in Slots :
                demod'[s] # demod[s] =>
                    /\ demod'[s].center_freq = chans[idx]
                    /\ chans[idx] # 0
                    /\ ~locked_out(chans[idx])
                    /\ chans[idx] \notin DemodFreqSet(demod)
        /\ (ReleaseStep /\ Occupied(demod) = {} /\ chans' = <<>>) =>
            (demod' = demod /\ events' = <<>> /\ pc' = "assign")
        /\ PublishStep => demod' = demod ]_vars

\* The Assign step has just passed over a channel that is locked out while
\* a slot was idle.
C8_Witness ==
    /\ pc = "assign"
    /\ idx > 1
    /\ Occupied(demod) # Slots
    /\ locked_out(chans[idx - 1])
    /\ chans[idx - 1] \notin DemodFreqSet(demod)

----------------------------------------------------------------------------
(* Properties of the frequency provider *)

C10_AtMostOneArmed == Cardinality(Armed) <= 1

\* No interesting activity so far: every task was created with the quiet
\* timeout and none was cancelled.
NoActivity ==
    /\ Suspended = {}
    /\ \A t \in DOMAIN tasks :
          tasks[t].timeout = "quiet" /\ tasks[t].state \in {"sleeping", "done"}

\* The provider has gone through all its steps and is back on the first
Wrapped == Len(tasks) > Len(steps) /\ step = 0

CreatedByCall(t) == t > 1 /\ tasks[t - 1].state = "cancelled"

\* C12: the steps of an interesting_activity call (cancel and suspend, the
\* cancellation, resume) leave step and both center frequencies unchanged;
\* when the call returns, the task that was pending is cancelled and the
\* only armed task is a new one, armed now; the task a call created does
\* not advance before active_timeout has passed since then; and the task
\* that any advance creates is due quiet_timeout later.
C12_RearmedWithActiveTimeout ==
    [][ /\ (callers' # callers \/ \E t \in DOMAIN tasks : tasks'[t].state = "cancelled" /\ tasks[t].state # "cancelled")
            => (step' = step /\ provider_center_freq' = provider_center_freq
                             /\ center_freq' = center_freq)
        /\ \A c \in Callers :
            (callers[c].pc = "awaiting" /\ callers'[c].pc = "idle")
                => /\ tasks'[callers[c].task].state = "cancelled"
                   /\ {t \in DOMAIN tasks' : tasks'[t].state = "sleeping"} = {Len(tasks')}
                   /\ Len(tasks') = Len(tasks) + 1
                   /\ tasks'[Len(tasks')].armed_at = now
        /\ \A t \in DOMAIN tasks :
            (tasks[t].state = "sleeping" /\ tasks'[t].state = "done")
                => /\ CreatedByCall(t) => now >= tasks[t].armed_at + ActiveTimeout
                   /\ Len(tasks') = Len(tasks) + 1
                   /\ tasks'[Len(tasks')].state = "sleeping"
                   /\ Due(tasks'[Len(tasks')]) = now + QuietTimeout ]_vars

\* A call was made, the task it created has advanced the step exactly
\* active_timeout later, and the task armed by that advance is a quiet one.
C12_Witness ==
    \E t \in 2..(Len(tasks) - 1) :
        /\ tasks[t - 1].state = "cancelled"
        /\ tasks[t].state = "done"
        /\ tasks[t + 1].state = "sleeping"
        /\ tasks[t + 1].armed_at = tasks[t].armed_at + ActiveTimeout
        /\ Due(tasks[t + 1]) = tasks[t + 1].armed_at + QuietTimeout
        /\ Suspended = {}

\* C13: no interesting_activity call ends with an exception raised to its
\* caller.
C13_NeverRaises == \A c \in Callers : callers[c].pc # "raised"

\* C14: no step taken between the start of Release and the end of Publish
\* of a scan cycle changes the center frequency of the scanner, the priority
\* basebands or the lockout basebands.
C14_NoAdvanceInsideCycle ==
    [][ (pc \in {"release", "assign"})
            => /\ center_freq' = center_freq
               /\ provider_center_freq' = provider_center_freq
               /\ priority_channels' = priority_channels
               /\ lockout_baseband' = lockout_baseband ]_vars

\* In the middle of a cycle the main task is suspended in
\* interesting_activity, on a provider that has advanced before, while the
\* task it cancelled has not finished yet.
C14_Witness ==
    /\ pc \in {"release", "assign"}
    /\ callers[MainTask].pc = "awaiting"
    /\ tasks[callers[MainTask].task].state = "cancelling"
    /\ step # 0


----------------------------------------------------------------------------
(* Step generation as the specification states it.  The specification      *)
(* writes floor only around the quotient that gives n; its other quotients *)
(* are read here as the truncated quotients of the integers involved.      *)

SpecifiedCenters(a_range, sample_rate) ==
    LET lo == a_range.lower_freq
        hi == a_range.upper_freq
    IN  IF hi - lo <= sample_rate
        THEN << lo + (hi - lo) \div 2 >>
        ELSE LET n == (hi - sample_rate - lo) \div sample_rate + 2
                 D == (hi - sample_rate - lo) \div (n - 1)
             IN  [k \in 1..n |-> lo + sample_rate \div 2 + (k - 1) * D]

RECURSIVE SpecifiedRanges(_, _)
SpecifiedRanges(ranges, sample_rate) ==
    IF ranges = <<>> THEN <<>>
    ELSE SpecifiedCenters(Head(ranges), sample_rate)
             \o SpecifiedRanges(Tail(ranges), sample_rate)

\* C15: the steps of a provider are the singles in configured order and then,
\* range by range in configured order, lo + (hi - lo)/2 for a range no wider
\* than the sample rate and otherwise the n = floor((hi - sr - lo)/sr) + 2
\* centers lo + sr/2 + k * D, D = (hi - sr - lo)/(n - 1), k = 0..n-1.
C15_StepsAsSpecified ==
    steps # <<>> =>
        steps = params.singles \o SpecifiedRanges(params.ranges, params.sample_rate)

----------------------------------------------------------------------------
(* The outer edges of the steps of one range wider than the sample rate *)

OneWideRange ==
    /\ steps # <<>>
    /\ params.singles = <<>>
    /\ Len(params.ranges) = 1
    /\ params.ranges[1].upper_freq - params.ranges[1].lower_freq > params.sample_rate

SelfTestGroup ==
    FrequencyGroup(<<>>, <<[lower_freq |-> 450000000, upper_freq |-> 459000000]>>, 3000000)

\* C16: for one range wider than the sample rate, the first center less half
\* the sample rate (truncated) is lo, and the last center plus half the sample
\* rate (truncated) is hi less what the truncation of the distance loses, which
\* is less than 1 Hz for each of the n - 1 moves; 450-459 MHz at 3e6 gives
\* exactly 4 centers.
C16_OuterEdgesAligned ==
    /\ OneWideRange =>
          LET lo == params.ranges[1].lower_freq
              hi == params.ranges[1].upper_freq
              half == params.sample_rate \div 2
              last == steps[Len(steps)]
          IN  /\ steps[1] - half = lo
              /\ last + half <= hi
              /\ hi - (last + half) < Len(steps) - 1
    /\ (steps # <<>> /\ params = SelfTestGroup) => Len(steps) = 4

C16_Witness ==
    /\ OneWideRange
    /\ params = SelfTestGroup
    /\ step = Len(steps) - 1
    /\ provider_center_freq + 1500000 = 459000000

----------------------------------------------------------------------------
(* Coverage of the ranges by the steps *)

\* f is within sample_rate/2 of the center c
Within(f, c) == 2 * (IF f >= c THEN f - c ELSE c - f) <= params.sample_rate

\* The frequencies of a range that are farthest from the centers: its two
\* ends and the middle of every two consecutive steps
Farthest(a_range) ==
    {a_range.lower_freq, a_range.upper_freq}
        \cup {(steps[i] + steps[i + 1]) \div 2 : i \in 1..(Len(steps) - 1)}

\* C17: the steps cover every configured range without gaps: the centers of a
\* range increase strictly, two consecutive ones are at most sample_rate
\* apart, and every frequency from lo to hi is within sample_rate/2 of a step.
C17_RangesCovered ==
    steps # <<>> =>
        /\ \A r \in Range(params.ranges) :
              \A f \in Farthest(r) :
                  (r.lower_freq <= f /\ f <= r.upper_freq)
                      => \E i \in DOMAIN steps : Within(f, steps[i])
        /\ (params.singles = <<>> /\ Len(params.ranges) = 1) =>
              \A i \in 1..(Len(steps) - 1) :
                  /\ steps[i] < steps[i + 1]
                  /\ steps[i + 1] - steps[i] <= params.sample_rate

----------------------------------------------------------------------------
(* The queries of the frequency manager *)

\* The entry f covers the baseband bb, once the basebands are calculated
Covers(f, bb) ==
    IF f.is_single THEN bb = f.bb_single
    ELSE f.bb_lo <= bb /\ bb <= f.bb_hi

\* The query returned the value v, and did not raise
Gave(result, v) == ~result.raised /\ result.value = v

\* C18: with disable_lockout set, locked_out(bb) is false whatever the
\* frequencies are and for every bb; without it, once the basebands are
\* calculated, locked_out(bb) is true exactly when some entry is locked and
\* covers bb: a single with bb = bb_single, a range with bb_lo <= bb <= bb_hi.
C18_LockedOutIffLockedEntryCovers ==
    answer.asked =>
        \A bb \in Basebands :
            /\ config.disable_lockout => Gave(answer.locked_out[bb], FALSE)
            /\ (~config.disable_lockout /\ manager_center # None) =>
                  Gave(answer.locked_out[bb],
                       \E i \in DOMAIN frequencies :
                           frequencies[i].locked /\ Covers(frequencies[i], bb))

\* a locked range answers for the baseband at its upper end, and with
\* disable_lockout the same frequencies answer false
C18_Witness ==
    /\ answer.asked
    /\ manager_center # None
    /\ Len(frequencies) = 1
    /\ ~frequencies[1].is_single
    /\ frequencies[1].locked
    /\ frequencies[1].bb_hi = 10000
    /\ ~config.disable_lockout
    /\ Gave(answer.locked_out[10000], TRUE)
    /\ Gave(answer.locked_out[20000], FALSE)

\* The priorities of the entries of one kind that have one and cover bb
CoveringPriorities(bb, singles) ==
    {frequencies[i].priority : i \in
        {k \in DOMAIN frequencies : /\ frequencies[k].is_single = singles
                                    /\ frequencies[k].priority # None
                                    /\ Covers(frequencies[k], bb)}}

\* C19: is_priority(bb) is the priority of a single that has one and covers
\* bb whenever there is such a single, in whatever order the entries were added
\* and whatever the covering ranges have; without one it is the smallest
\* priority of the ranges that have one and cover bb; and it is None when no
\* entry with a priority covers bb.
C19_SingleDominatesRange ==
    (answer.asked /\ manager_center # None) =>
        \A bb \in Basebands :
            LET of_singles == CoveringPriorities(bb, TRUE)
                of_ranges == CoveringPriorities(bb, FALSE)
                result == answer.is_priority[bb]
            IN  /\ ~result.raised
                /\ IF of_singles # {} THEN result.value \in of_singles
                   ELSE IF of_ranges # {}
                   THEN /\ result.value \in of_ranges
                        /\ \A p \in of_ranges : result.value <= p
                   ELSE result.value = None

\* C20: is_higher_priority(c, d) is true for every c when d = 0, also with
\* disable_priority; for d # 0 it is false with disable_priority; otherwise,
\* with is_priority giving the priority at a baseband, it is false when c has
\* no priority, true when c has one and d has none, and else true exactly when
\* the priority at c is less than the priority at d: a tie is false, and no
\* channel is higher priority than itself.
C20_HigherPriorityComparison ==
    answer.asked =>
        \A c \in Basebands, d \in Basebands :
            LET result == answer.is_higher_priority[<<c, d>>]
                at_c == answer.is_priority[c]
                at_d == answer.is_priority[d]
            IN  /\ d = 0 => Gave(result, TRUE)
                /\ (d # 0 /\ config.disable_priority) => Gave(result, FALSE)
                /\ (d # 0 /\ ~config.disable_priority /\ manager_center # None) =>
                      /\ ~at_c.raised /\ ~at_d.raised
                      /\ Gave(result,
                              /\ at_c.value # None
                              /\ at_d.value = None \/ at_c.value < at_d.value)
                      /\ c = d => Gave(result, FALSE)

\* a priority 1 against a priority 2 both ways, a tie, no priority, and an
\* idle demodulator
C20_Witness ==
    /\ answer.asked
    /\ manager_center # None
    /\ ~config.disable_priority
    /\ Gave(answer.is_priority[10000], 1)
    /\ Gave(answer.is_priority[0 - 1000000], 2)
    /\ Gave(answer.is_priority[20000], None)
    /\ Gave(answer.is_higher_priority[<<10000, 0 - 1000000>>], TRUE)
    /\ Gave(answer.is_higher_priority[<<0 - 1000000, 10000>>], FALSE)
    /\ Gave(answer.is_higher_priority[<<10000, 10000>>], FALSE)
    /\ Gave(answer.is_higher_priority[<<20000, 10000>>], FALSE)
    /\ Gave(answer.is_higher_priority[<<10000, 20000>>], TRUE)
    /\ Gave(answer.is_higher_priority[<<20000, 0>>], TRUE)

\* Two entries for the same frequency: two singles with the same single, or
\* two ranges with the same lo and hi
SameFrequency(a, b) ==
    IF a.is_single /\ b.is_single THEN a.single = b.single
    ELSE IF ~a.is_single /\ ~b.is_single THEN a.lo = b.lo /\ a.hi = b.hi
    ELSE FALSE

\* C21: whatever add and change calls were made, no two entries of the
\* frequencies are for the same frequency: an add of a frequency that is
\* already there raises "already occurs in list" and appends nothing.
C21_NoEqualEntries ==
    \A i, j \in DOMAIN frequencies :
        i # j => ~SameFrequency(frequencies[i], frequencies[j])

\* What the specification asks of an entry that is kept
ValidKept(f) ==
    /\ \/ f.single # None /\ f.lo = None /\ f.hi = None
       \/ f.single = None /\ f.lo # None /\ f.hi # None /\ f.lo < f.hi
    /\ f.single = None \/ f.single >= 0
    /\ f.lo = None \/ f.lo >= 0
    /\ f.hi = None \/ f.hi >= 0
    /\ f.priority = None \/ f.priority >= 1
    /\ f.locked \in BOOLEAN

\* The messages of the ValueErrors of an entry that violates the above
ViolationErrors ==
    {"Locked must be a boolean", "Priority must be an integer >= 1",
     "Frequency must be specified as single or range",
     "Frequency cannot be specified as both single and range",
     "Both lo and hi must be specified for a frequency range",
     "Frequencies must be positive numbers",
     "Upper frequency (hi) must be larger than lower frequency (lo)"}

\* C22: after any load, add and change calls every entry of the frequencies
\* is a single or a range with both bounds and lo < hi, has no negative
\* frequency, a priority that is None or at least 1, and a boolean locked;
\* and an add or change that raises for a violating entry leaves the
\* frequencies as they were.
C22_EntriesStayValid ==
    /\ [](\A i \in DOMAIN frequencies : ValidKept(frequencies[i]))
    /\ [][answer'.error \in ViolationErrors => frequencies' = frequencies]_vars

\* a violating entry was refused by frequencies that hold an entry
C22_Witness ==
    /\ answer.error = "Frequencies must be positive numbers"
    /\ frequencies # <<>>

\* C23: no entry of the frequencies has a frequency of zero: a single of 0.0
\* or a range whose lo is 0.0 is refused as a configuration error.
C23_NoZeroFrequency ==
    \A i \in DOMAIN frequencies :
        /\ frequencies[i].single # 0
        /\ frequencies[i].lo # 0

\* The entries that are for the frequency of the dict
EqualTo(entry) ==
    {i \in DOMAIN frequencies :
        IF entry.single # None THEN frequencies[i].single = entry.single
        ELSE /\ frequencies[i].lo = entry.lo
             /\ frequencies[i].hi = entry.hi}

\* What change(entry) is specified to do in one step
ChangeEffect(entry) ==
    IF EqualTo(entry) # {}
    THEN /\ answer'.error = "none"
         /\ DOMAIN frequencies' = DOMAIN frequencies
         /\ \E i \in EqualTo(entry) :
               /\ frequencies'[i] =
                     [frequencies[i] EXCEPT
                        !.label = IF "label" \in entry.keys THEN entry.label ELSE @,
                        !.priority = IF "priority" \in entry.keys
                                     THEN entry.priority ELSE @,
                        !.locked = IF "locked" \in entry.keys
                                   THEN entry.locked = "True" ELSE @]
               /\ \A j \in DOMAIN frequencies \ {i} : frequencies'[j] = frequencies[j]
    ELSE IF entry.mode_add
    THEN /\ answer'.error = "none"
         /\ Len(frequencies') = Len(frequencies) + 1
         /\ SubSeq(frequencies', 1, Len(frequencies)) = frequencies
         /\ frequencies'[Len(frequencies')].single = entry.single
         /\ frequencies'[Len(frequencies')].lo = entry.lo
         /\ frequencies'[Len(frequencies')].hi = entry.hi
    ELSE /\ answer'.error = "not found in frequencies list"
         /\ frequencies' = frequencies

\* C24: change(entry) on frequencies that hold an entry for the same
\* frequency sets those of label, priority and locked that the dict has and
\* nothing else: the other fields of that entry, the other entries and the
\* length stay; without such an entry it appends the entry when mode is add
\* and otherwise raises "not found in frequencies list" and changes nothing.
C24_ChangeTouchesOnlyGivenFields ==
    [][\A e \in ValidEntries : change(e) => ChangeEffect(e)]_vars

\* C25: once set_center has been called, every entry of the frequencies has
\* the basebands of its frequencies for the latest center, bb_single for a
\* single and bb_lo and bb_hi for a range, whether it was added before or
\* after the call and whatever add and change calls followed.
C25_BasebandsFollowCenter ==
    manager_center # None =>
        \A i \in DOMAIN frequencies :
            LET f == frequencies[i]
            IN  IF f.is_single
                THEN f.bb_single =
                        frequency_to_baseband(f.single, manager_center, ChannelSpacing)
                ELSE /\ f.bb_lo =
                          frequency_to_baseband(f.lo, manager_center, ChannelSpacing)
                     /\ f.bb_hi =
                          frequency_to_baseband(f.hi, manager_center, ChannelSpacing)

\* The entries of a configuration file as they are specified to be kept
Loaded(entries) ==
    /\ Len(frequencies') = Len(entries)
    /\ \A i \in DOMAIN entries :
          /\ frequencies'[i].single = entries[i].single
          /\ frequencies'[i].lo = entries[i].lo
          /\ frequencies'[i].hi = entries[i].hi
          /\ frequencies'[i].saved

\* C26: a load that succeeds leaves exactly the entries of the configuration
\* file in the frequencies, all of them saved, whatever was there before, so
\* that a second load gives what the first gave; a load without a file name
\* leaves no entry.
C26_LoadReplaces ==
    [][load => IF config.file_name = NoFile THEN frequencies' = <<>>
               ELSE answer'.error = "none" => Loaded(Files[config.file_name])]_vars

\* interesting_activity was called in the step: the provider cancels its
\* task, or creates the next one, or the await raises
ProviderCalled == <<tasks, step_task, callers>>' # <<tasks, step_task, callers>>

\* C27: for every message that is logged, interesting_activity is called on
\* the provider exactly when the scanner records and the message has a file,
\* or does not record and the message is an on message; an off or act message
\* without a file never calls it.
C27_CalledExactlyWhenInteresting ==
    [][\A msg \in Messages : \A delivered \in BOOLEAN :
          Log(msg, delivered) =>
              (ProviderCalled <=> \/ record /\ msg.file # NoWav
                                  \/ ~record /\ msg.state = "on")]_vars

\* a recording scanner was given an off message with a file and waits for the
\* task it cancelled
C27_Witness ==
    /\ record
    /\ events # <<>>
    /\ events[1].state = "off"
    /\ events[1].file # NoWav
    /\ callers[MainTask].pc = "awaiting"

\* How many transmissions of the classification were counted for rf
CountOf(stats, rf, classification) ==
    IF rf \in DOMAIN stats THEN stats[rf][classification] ELSE 0

\* More voice than data and more voice than skip
MostlyVoice(rf) ==
    /\ CountOf(xmit_stats, rf, "V") > CountOf(xmit_stats, rf, "D")
    /\ CountOf(xmit_stats, rf, "V") > CountOf(xmit_stats, rf, "S")

\* C28: with --auto_priority a frequency is in auto_priority_frequencies
\* exactly when its counts have V > D and V > S; a message with a
\* classification adds one to that count of its frequency and to no other;
\* a message without a classification, and every message without
\* --auto_priority, leaves the counts, auto_priority_frequencies and
\* priority_channels as they were.
C28_AutoPriorityFollowsCounts ==
    /\ [](auto_priority =>
            \A rf \in MessageFrequencies :
                rf \in Range(auto_priority_frequencies) <=> MostlyVoice(rf))
    /\ [][\A msg \in Messages : \A delivered \in BOOLEAN :
            Log(msg, delivered) =>
                IF auto_priority /\ msg.classification # NoClass
                THEN \A rf \in MessageFrequencies : \A c \in Classifications :
                        CountOf(xmit_stats', rf, c) =
                            CountOf(xmit_stats, rf, c)
                            + (IF rf = msg.frequency /\ c = msg.classification
                               THEN 1 ELSE 0)
                ELSE UNCHANGED <<xmit_stats, auto_priority_frequencies,
                                 priority_channels>>]_vars

\* a frequency that had more voice lost its place to a data transmission
\* while another frequency keeps its place
C28_Witness ==
    /\ auto_priority
    /\ DOMAIN xmit_stats = MessageFrequencies
    /\ xmit_stats[146010000] = [V |-> 1, D |-> 1, S |-> 0]
    /\ auto_priority_frequencies = <<146015000>>

\* How many times the channel is in priority_channels
Occurrences(channel) ==
    Cardinality({i \in DOMAIN priority_channels : priority_channels[i] = channel})

\* C29: a frequency of the priority file, to which the user has given a
\* priority, is never made an automatic priority: it is not added to
\* auto_priority_frequencies and its channel is in priority_channels once
\* at most, at the place the file gives it.
C29_UserPriorityNotPromoted ==
    \A i \in DOMAIN PriorityFile :
        /\ PriorityFile[i] \notin Range(auto_priority_frequencies)
        /\ Occurrences(frequency_to_baseband(PriorityFile[i], center_freq,
                                             ChannelSpacing)) <= 1

\* C30: a delivery that fails, the write of the fixed-field logger or the
\* post of the JSON logger, never makes log raise: the set_center_freq that
\* logged the message goes on and the main task is not ended by it.
C30_LogNeverRaises == pc # "crashed"

\* C31: an exception that a scan cycle raises ends that cycle only: the main
\* loop goes on, and a later pass through it runs scan_cycle again.
C31_LoopSurvivesException ==
    pc = "crashed" => ENABLED (\E raws \in EstimatorOutputs : Release(raws))

\* The active and hanging flags of the list that scan_cycle publishes on the
\* estimator output raws are those of the slot table dm
FlagsFrom(dm, published, chs) ==
    \A i \in DOMAIN published :
        LET c == published[i]
        IN  /\ c.active = (c.baseband \in Range(chs) /\ c.baseband \in DemodFreqSet(dm))
            /\ c.hanging = (c.baseband \notin Range(chs) /\ c.baseband \in DemodFreqSet(dm))

Running(s) ==
    {t \in DOMAIN act_tasks :
        act_tasks[t].channel = s /\ act_tasks[t].state = "sleeping"}

\* C33: with a logger timeout above zero a slot has exactly one repeating act
\* task while its latest event is on and none otherwise, an act message is
\* logged for a slot only while its latest event is on; with a timeout of
\* zero no act task is ever started.
C33_ActTaskWhileOn ==
    /\ [](pc # "crashed" =>
            /\ logger # "none" /\ log_timeout > 0 =>
                  \A s \in Slots :
                      Cardinality(Running(s)) = IF last_state[s].state = "on" THEN 1 ELSE 0
            /\ log_timeout = 0 => act_tasks = <<>>)
    /\ [][\A t \in DOMAIN act_tasks :
             act_tasks'[t].acts > act_tasks[t].acts =>
                last_state[act_tasks[t].channel].state = "on"]_vars

\* whether the lockouts hold the single frequency freq
LockedSingle(freq) == \E k \in DOMAIN lockouts : lockouts[k].freq = freq

\* C34: add_lockout(idx) appends an unsaved single lockout for the frequency
\* of the idx-th published channel that is active or hanging; with idx past
\* that subset the lockouts are as before, with a frequency that is already a
\* single lockout the lockouts are as before; the slot table is not touched.
C34_AddLockoutEffect ==
    /\ [](\A i \in 1..(NumDemod + Cardinality(RawChannels)) :
            IF i \notin DOMAIN ActiveOrHanging
            THEN add_lockout(i) = lockouts
            ELSE IF LockedSingle(ActiveOrHanging[i].frequency)
            THEN add_lockout(i) = lockouts
            ELSE add_lockout(i) =
                    lockouts \o <<[freq |-> ActiveOrHanging[i].frequency,
                                   saved |-> FALSE]>>)
    /\ [][lockouts' # lockouts =>
             /\ demod' = demod
             /\ \E i \in DOMAIN ActiveOrHanging : lockouts' = add_lockout(i)]_vars

\* a lockout was added for a channel that is still published: the digit of
\* that channel adds nothing, a digit past the subset adds nothing
C34_Witness ==
    /\ pc = "idle"
    /\ \E i \in DOMAIN ActiveOrHanging :
          /\ LockedSingle(ActiveOrHanging[i].frequency)
          /\ \E k \in DOMAIN ActiveOrHanging :
                ~LockedSingle(ActiveOrHanging[k].frequency)
    /\ Len(ActiveOrHanging) < NumDemod + Cardinality(RawChannels)

\* C35: an Assign step changes a slot that holds a channel only when no slot
\* is idle, and at the end of Assign no slot is idle while a channel of the
\* estimator output that is not locked out is held by no slot.
C35_WorkConserving ==
    /\ [][AssignStep =>
             \A s \in Slots :
                 (demod'[s] # demod[s] /\ demod[s].center_freq # 0) =>
                     Occupied(demod) = Slots]_vars
    /\ []((pc = "assign" /\ idx > Len(chans) /\ Occupied(demod) # Slots) =>
             \A i \in DOMAIN chans :
                 ~locked_out(chans[i]) => chans[i] \in DemodFreqSet(demod))

\* C36: no two slots are tuned to the same baseband other than 0, also when
\* the rounded estimator output holds a channel twice, after a change of the
\* center frequency and after a channel displaced another.
C36_SlotsTunedApart ==
    \A s, t \in Slots :
        (s # t /\ demod[s].center_freq # 0) => demod[s].center_freq # demod[t].center_freq

\* Assign has passed over the second of two equal channels of the output
\* while the first holds a slot and another slot is idle, at a center that
\* was changed
C36_Witness ==
    /\ pc = "assign"
    /\ center_freq = 146002000
    /\ \E i, j \in DOMAIN chans :
          /\ i < j
          /\ j < idx
          /\ chans[i] = chans[j]
          /\ chans[i] \in DemodFreqSet(demod)
    /\ Occupied(demod) # Slots

\* C37: the on and off messages of a slot alternate, the first is an on, and
\* an off message carries the radio frequency of the on message before it,
\* also when the center frequency changed while the slot stayed tuned.
C37_OffCarriesFrequencyOfOn ==
    [][events' # events =>
          \A i \in DOMAIN events' :
              LET m == events'[i]
                  before == IF i = 1 THEN last_state[m.channel]
                            ELSE [state |-> events'[i - 1].state,
                                  frequency |-> events'[i - 1].frequency]
              IN  /\ m.state = "on" => before.state # "on"
                  /\ m.state = "off" =>
                        (before.state = "on" /\ before.frequency = m.frequency)]_vars

\* the basebands a lockout can cover
LockableBasebands == {5000, 10000, 15000}

\* C38: locked_out(bb) is true exactly for the basebands that a lockout of
\* the current list covers at the current center frequency: after the
\* construction, after add, after a change of the center and after
\* clear_lockout.
C38_TableFollowsList ==
    \A bb \in LockableBasebands :
        locked_out(bb) <=>
            \E k \in DOMAIN lockouts :
                frequency_to_baseband(lockouts[k].freq, center_freq, ChannelSpacing) = bb

\* C39: every channel that _get_raw_channels returns is a multiple of the
\* channel spacing, and converting it to its radio frequency and back at the
\* current center gives the channel again.
C39_BasebandRoundTrip ==
    pc = "assign" =>
        \A i \in DOMAIN chans :
            /\ chans[i] % ChannelSpacing = 0
            /\ frequency_to_baseband(baseband_to_frequency(chans[i], center_freq),
                                     center_freq, ChannelSpacing) = chans[i]

\* C40: the provider always has at least one step, step is a place of the
\* step list and center_freq is the step at that place; a provider with one
\* step has no task, and nothing changes its step, its center frequency, its
\* tasks or the calls of interesting_activity.
C40_ProviderOnItsStep ==
    /\ [](/\ steps # <<>>
          /\ step \in 0..(Len(steps) - 1)
          /\ provider_center_freq = steps[step + 1]
          /\ Len(steps) = 1 => (tasks = <<>> /\ step_task = 0))
    /\ [][Len(steps) = 1 =>
             UNCHANGED <<step, provider_center_freq, tasks, step_task, callers>>]_vars

\* a provider with several steps has gone through them all and is on its
\* first step again, and a call of interesting_activity has created a task
C40_Witness ==
    /\ Len(steps) > 1
    /\ step = 0
    /\ Cardinality({t \in DOMAIN tasks : tasks[t].state = "done"}) >= Len(steps)
    /\ \E t \in DOMAIN tasks : tasks[t].state = "cancelled"
====
